---- MODULE Spec2Model ----
(***************************************************************************)
(* State-machine model of the location / geofence event engine:            *)
(*   LocationService    (src/src/services/locationService.ts)              *)
(*   GeofencingService  (src/src/services/geofencingService.ts)            *)
(*   SocketHandler      (src/unnamed/part_001, the socket handler with     *)
(*                       proximity alerts)                                 *)
(*   RateLimiter        (src/src/middleware/rateLimiter.ts)                *)
(*   the HTTP routes    (src/src/routes)                                   *)
(*                                                                         *)
(* Coordinates are abstracted to one dimension: a position is a distance   *)
(* in metres along a meridian, so that the great-circle distance between   *)
(* two positions is the absolute difference.                               *)
(*                                                                         *)
(* The location store is modelled at two levels of detail.  `userLocations`*)
(* holds the latitude of the stored LocationData, which is all the         *)
(* dispatcher and the evaluator read.  The actions of the location store   *)
(* proper (PostLocation, BulkLocation, UpdateLocationMessage, PutStatus,   *)
(* CloseSession) maintain in addition the full record, the history and the *)
(* status (`locationDetails`, `locationHistory`, `userStatus`); the actions*)
(* of the dispatcher and evaluator specifications leave these alone.       *)
(* The region registry is modelled the same way: the route actions         *)
(* (PostGeofence, PutGeofence, DeleteGeofenceRoute, ToggleGeofence) and    *)
(* the service calls with an answer (UpdateGeofenceCall,                   *)
(* DeleteGeofenceCall) maintain in addition the creator of each region and *)
(* the answer of the last request (`createdBy`, `lastRegionRequest`).      *)
(* `rooms` and `delivered` hold the subscriptions of the sessions and the  *)
(* position messages of the last update; `limits`, `clock` and             *)
(* `maxRequests` are the state of the rate limiter.                        *)
(* `timers` and `checkInterval` are the interval timers armed by           *)
(* startGeofenceChecking and the handle the service keeps.                 *)
(*                                                                         *)
(* Every `await` of the source is a suspension point.  The handlers are    *)
(* therefore split into steps; `handler.pc` and `sweep.pc` say where the   *)
(* update_location handler and the periodic sweep are suspended.  The      *)
(* parameter `seq` of the starting actions selects the scheduling: with    *)
(* seq = TRUE an operation starts only when no other one is in flight      *)
(* (operations processed one after another), with seq = FALSE operations   *)
(* interleave at the suspension points.                                    *)
(***************************************************************************)
EXTENDS Integers, Sequences, FiniteSets, TLC

(***************************************************************************)
(* Bounds of the model                                                     *)
(***************************************************************************)
\* positions are 60, 120, ..., 60 * MaxPos metres
MaxPos == 2
\* no sweep starts once the event store holds this many events
MaxEvents == 2
\* the clock reads 1, ..., MaxTime
MaxTime == 3
\* the location store specification accepts at most this many positions
MaxReports == 2
\* positions accepted in a run of the history specification
MaxUpdates == 102
\* events generated in a run of the event store specification
MaxGenerated == 1002
\* largest limit asked for in a read of a history or of events
MaxLimit == 3
\* last reading of the clock of the rate limiter
MaxClock == 6
\* at most this many interval timers are armed in the model
MaxTimers == 2

Positions == {60 * k : k \in 1..MaxPos}
\* centre of every region of the model
Centers == {60}

UserOrder == <<"c1", "t1", "t2">>
Users == {UserOrder[k] : k \in 1..Len(UserOrder)}
Sockets == {"s1", "s2", "s3"}
GeofenceOrder == <<"g1", "g2">>
GeofenceIds == {GeofenceOrder[k] : k \in 1..Len(GeofenceOrder)}
NoKey == "none"
ServiceRequests == {"sr1"}

(***************************************************************************)
(* Program constants                                                       *)
(***************************************************************************)
DefaultRadius == 90
ServiceRequestRadius == 50
EventCap == 1000
\* locationService.ts:81, entries kept per principal in locationHistory
HistoryCap == 100
\* limit of GET /me/history when the query gives none (or 0)
DefaultHistoryLimit == 50
\* rateLimiter.ts:18, RATE_LIMIT_MAX_REQUESTS when the environment gives none
DefaultMaxRequests == 100
\* geofencingService.ts:413, limit of getGeofenceEvents when none is given
DefaultEventsLimit == 100

\* user_type of a principal, as delivered by the authentication middleware
UserType(u) == IF u = "c1" THEN "customer" ELSE "technician"

\* socket.user of a session, fixed by the authentication of the connection
\* (session s4 is a second connection authenticated as c1)
SocketUser(s) ==
  CASE s = "s1" -> "c1" [] s = "s2" -> "t1" [] s = "s4" -> "c1" [] OTHER -> "t2"

VARIABLES
  userLocations,            \* LocationService.userLocations (Map, insertion order)
  geofences,                \* the Geofence objects ever created, by id
  activeGeofences,          \* GeofencingService.activeGeofences (Set, insertion order)
  previousUsersInGeofence,  \* GeofencingService.previousUsersInGeofence (Map)
  geofenceEvents,           \* GeofencingService.geofenceEvents
  connectedUsers,           \* SocketHandler.connectedUsers (Map, insertion order)
  proximityAlerts,          \* SocketHandler.proximityAlerts (Map)
  handler,                  \* the update_location handler in flight
  sweep,                    \* the checkAllActiveGeofences pass in flight
  emitted,                  \* proximity_alert messages emitted by the last handler
  alertsSince,              \* alerts per (region, trigger) since the pair became present
  pristine,                 \* regions created before any position, unchanged since
  cleanPasses,              \* completed passes since the last change of position or region
  parkedSweep,              \* a second pass in flight, suspended while the other one runs
  parkedHandler,            \* a second update_location handler in flight, suspended
  parkedFirst,              \* both handlers in flight: the suspended one was submitted first
  overtaken,                \* a later update has emitted while the oldest one in flight has not finished
  locationDetails,          \* LocationService.userLocations: the stored LocationData in full
  locationHistory,          \* LocationService.locationHistory (Map of arrays)
  userStatus,               \* LocationService.userStatus (Map)
  allReports,               \* every LocationData accepted for a principal, oldest first
  lastRequest,              \* the last position request: what was submitted and what was answered
  allEvents,                \* history: every event a pass has generated, in order
  createdBy,                \* Geofence.created_by of the regions created through the routes, by id
  lastRegionRequest,        \* history: the last request on the region registry and its answer
  rooms,                    \* socket.io rooms: the subscriptions (session, technician, pairing key)
  delivered,                \* the position messages the last update_location sent, by receiving session
  startedSince,             \* history: passes started since the last change of a position or region (0, 1, 2)
  failed,                   \* history: the regions whose evaluation failed in the current or last pass
  lastQuery,                \* the last read of a history or of the events of a region, with its answer
  limits,                   \* RateLimiter.limits: key -> [count, resetTime]
  clock,                    \* Date.now(), in windows of the rate limiter
  maxRequests,              \* RateLimiter.maxRequests, 0 before the constructor has run
  lastCheck,                \* the last answer of checkLimit
  allowedLog,               \* history: per key, the requests allowed in its current window and the end of that window
  timers,                   \* the interval timers that are armed
  checkInterval,            \* GeofencingService.checkInterval: the handle of a timer, 0 for null
  stopped                   \* history: stopGeofenceChecking has returned and startGeofenceChecking has not been called since

vars == <<userLocations, geofences, activeGeofences, previousUsersInGeofence,
          geofenceEvents, connectedUsers, proximityAlerts, handler, sweep,
          emitted, alertsSince, pristine, cleanPasses,
          parkedSweep,
          parkedHandler,
          parkedFirst,
          overtaken,
          locationDetails,
          locationHistory,
          userStatus,
          allReports,
          lastRequest,
          allEvents,
          createdBy,
          lastRegionRequest,
          rooms,
          delivered,
          startedSince,
          failed,
          lastQuery,
          limits,
          clock,
          maxRequests,
          lastCheck,
          allowedLog,
          timers,
          checkInterval,
          stopped>>

(***************************************************************************)
(* Helpers for Map / Set / Array values                                    *)
(***************************************************************************)
Min(a, b) == IF a <= b THEN a ELSE b

Max(a, b) == IF a >= b THEN a ELSE b

MapSet(m, k, v) == [x \in (DOMAIN m) \cup {k} |-> IF x = k THEN v ELSE m[x]]

MapDelete(m, k) == [x \in (DOMAIN m) \ {k} |-> m[x]]

\* map.get(k) || new Set()
MapGetOrEmpty(m, k) == IF k \in DOMAIN m THEN m[k] ELSE {}

Range(s) == {s[k] : k \in 1..Len(s)}

\* array.filter(x => x \in S)
FilterIn(s, S) == LET Test(x) == x \in S IN SelectSeq(s, Test)

\* array.filter(x => x \notin S)
FilterOut(s, S) == LET Test(x) == x \notin S IN SelectSeq(s, Test)

\* array.slice(-n)
LastN(s, n) == IF Len(s) <= n THEN s ELSE SubSeq(s, Len(s) - n + 1, Len(s))

(***************************************************************************)
(* LocationService                                                         *)
(***************************************************************************)
\* userLocations.set(user_id, location)
updateUserLocation(locs, u, p) == MapSet(locs, u, p)

\* Array.from(userLocations.values()).  The Map's insertion order is not part of
\* the model: the locations are listed in the fixed order UserOrder.
getAllUserLocations ==
  LET known == FilterIn(UserOrder, DOMAIN userLocations)
  IN  [k \in 1..Len(known) |-> [user_id |-> known[k], latitude |-> userLocations[known[k]]]]

HasLocation(u) == u \in DOMAIN userLocations

(***************************************************************************)
(* GeofencingService: pure parts                                           *)
(***************************************************************************)
\* turf.distance(center, userPoint, {units: "meters"}) on the meridian
distance(a, b) == IF a >= b THEN a - b ELSE b - a

isPointInGeofence(p, g) == distance(g.latitude, p) <= g.radius

\* the ids of this.geofences, in Map order
StoredIds == FilterIn(GeofenceOrder, {id \in DOMAIN geofences : geofences[id].stored})

\* getActiveGeofences(): the active ids that are in this.geofences
getActiveGeofences == FilterIn(activeGeofences, Range(StoredIds))

\* getUsersInGeofence after allLocations was read: the user ids inside, in order
usersInside(locs, g) ==
  LET Test(l) == isPointInGeofence(l.latitude, g)
      in == SelectSeq(locs, Test)
  IN  [k \in 1..Len(in) |-> in[k].user_id]

\* faulty variant of checkGeofences: the loop stops at the first region found
checkGeofences_FirstOnly(u, p) ==
  LET Test(id) == geofences[id].is_active /\ isPointInGeofence(p, geofences[id])
      ids == SelectSeq(StoredIds, Test)
  IN  [k \in 1..Min(Len(ids), 1) |->
         [type |-> "location_update", geofence_id |-> ids[k], user_id |-> u]]

\* faulty variant of checkGeofences: inactive regions are evaluated too
checkGeofences_IgnoreActive(u, p) ==
  LET Test(id) == isPointInGeofence(p, geofences[id])
      ids == SelectSeq(StoredIds, Test)
  IN  [k \in 1..Len(ids) |->
         [type |-> "location_update", geofence_id |-> ids[k], user_id |-> u]]

\* checkGeofences(locationData): one location_update per active region holding the point
checkGeofences(u, p) ==
  LET Test(id) == geofences[id].is_active /\ isPointInGeofence(p, geofences[id])
      ids == SelectSeq(StoredIds, Test)
  IN  [k \in 1..Len(ids) |->
         [type |-> "location_update", geofence_id |-> ids[k], user_id |-> u]]

\* processGeofenceEvents: the entry events, then the exit events
processGeofenceEvents(id, newEntries, exits) ==
  [k \in 1..Len(newEntries) |->
     [type |-> "entry", geofence_id |-> id, user_id |-> newEntries[k]]]
  \o
  [k \in 1..Len(exits) |->
     [type |-> "exit", geofence_id |-> id, user_id |-> exits[k]]]

\* faulty variant of storeGeofenceEvents: the first 1000 are kept
storeGeofenceEvents_KeepFirst(store, events) ==
  IF Len(store \o events) > EventCap
  THEN SubSeq(store \o events, 1, EventCap)
  ELSE store \o events

\* storeGeofenceEvents: push, then keep the last 1000
storeGeofenceEvents(store, events) == LastN(store \o events, EventCap)

(***************************************************************************)
(* Proximity condition, stated on the state (not on the handler's locals)  *)
(***************************************************************************)
ConnectedIds == {connectedUsers[k].id : k \in 1..Len(connectedUsers)}

\* principals whose last known position is inside region id
InsideNow(id) ==
  {u \in DOMAIN userLocations : isPointInGeofence(userLocations[u], geofences[id])}

ConnectedInside(id, type) ==
  {u \in InsideNow(id) \cap ConnectedIds : UserType(u) = type}

\* region id contains a connected customer and a connected technician
PairPresent(id) ==
  /\ id \in DOMAIN geofences
  /\ geofences[id].stored
  /\ ConnectedInside(id, "customer") # {}
  /\ ConnectedInside(id, "technician") # {}

(***************************************************************************)
(* Initial state: the state after construction of the three singletons     *)
(***************************************************************************)
IdleHandler == [pc |-> "idle", socket |-> "s1", user |-> "c1", previous |-> 0,
                pos |-> 0, events |-> <<>>, i |-> 1, locs |-> <<>>, userIds |-> <<>>]

IdleSweep == [pc |-> "idle", queue |-> <<>>, locs |-> <<>>, users |-> <<>>,
              prev |-> {}, entries |-> <<>>, exits |-> <<>>]

\* checkLimit has not been called yet
NoCheck == [n |-> 0, key |-> "none", allowed |-> TRUE, remaining |-> 0]

\* no history and no events have been read yet
NoQuery == [path |-> "none", by |-> "none", limit |-> 0, status |-> "none",
            from |-> <<>>, result |-> <<>>]

\* no request on the region registry yet
NoRegionRequest == [n |-> 0, path |-> "none", by |-> "none", id |-> "none",
                    result |-> "none"]

\* no position request has been made yet
NoRequest == [n |-> 0, path |-> "none", user |-> "none", items |-> <<>>]

Init ==
  /\ userLocations = [u \in {} |-> 0]
  /\ geofences = [id \in {} |-> 0]
  /\ activeGeofences = <<>>
  /\ previousUsersInGeofence = [id \in {} |-> {}]
  /\ geofenceEvents = <<>>
  /\ connectedUsers = <<>>
  /\ proximityAlerts = [id \in {} |-> {}]
  /\ handler = IdleHandler
  /\ sweep = IdleSweep
  /\ emitted = {}
  /\ alertsSince = [id \in GeofenceIds |-> [u \in Users |-> 0]]
  /\ pristine = {}
  /\ cleanPasses = 0
  /\ parkedSweep = IdleSweep
  /\ parkedHandler = IdleHandler
  /\ parkedFirst = FALSE
  /\ overtaken = FALSE
  /\ locationDetails = [u \in {} |-> 0]
  /\ locationHistory = [u \in {} |-> <<>>]
  /\ userStatus = [u \in {} |-> "unknown"]
  /\ allReports = [u \in {} |-> <<>>]
  /\ lastRequest = NoRequest
  /\ allEvents = <<>>
  /\ createdBy = [id \in {} |-> "none"]
  /\ lastRegionRequest = NoRegionRequest
  /\ rooms = {}
  /\ delivered = {}
  /\ startedSince = 0
  /\ failed = {}
  /\ lastQuery = NoQuery
  /\ limits = [k \in {} |-> 0]
  /\ clock = 0
  /\ maxRequests = 0
  /\ lastCheck = NoCheck
  /\ allowedLog = [k \in {} |-> 0]
  /\ timers = {}
  /\ checkInterval = 0
  /\ stopped = FALSE

\* no operation is suspended at an await
Quiet == handler.pc = "idle" /\ sweep.pc = "idle"

(***************************************************************************)
(* History bookkeeping shared by the actions                               *)
(***************************************************************************)
\* the alert counters restart when a region goes from "pair absent" to "pair present"
TrackAlerts ==
  alertsSince' =
    [id \in GeofenceIds |-> [u \in Users |->
       LET base == IF ~PairPresent(id) /\ PairPresent(id)' THEN 0 ELSE alertsSince[id][u]
           new  == Cardinality({a \in emitted' \ emitted : a.geofence = id /\ a.by = u})
       IN  Min(base + new, 2)]]

\* a change of a position or of a region ends a run of unchanged passes
TrackChange ==
  cleanPasses' =
    IF \/ userLocations' # userLocations
       \/ geofences' # geofences
       \/ activeGeofences' # activeGeofences
    THEN 0 ELSE cleanPasses

\* a region is pristine while it is stored with the fields it was created with,
\* and it was created before any principal reported a position
TrackPristine ==
  pristine' =
    {id \in DOMAIN geofences' :
       /\ geofences'[id].stored
       /\ \/ id \in pristine /\ geofences'[id] = geofences[id]
          \/ id \notin DOMAIN geofences /\ DOMAIN userLocations = {}}

\* the step emits a message derived from the update of the running handler:
\* geofence_events, proximity_alert (a session to send it to is found) or the
\* closing location_updated
Emits ==
  /\ parkedHandler' = parkedHandler
  /\ \/ handler.pc = "stored" /\ handler'.pc = "checked" /\ handler'.events # <<>>
     \/ /\ handler.pc = "fetch"
        /\ handler'.pc # "fetch"
        /\ \E k \in 1..Len(connectedUsers) :
             /\ connectedUsers[k].id \in Range(handler.userIds)
             /\ connectedUsers[k].user_type = UserType(handler.user)
     \/ handler.pc = "checked" /\ handler'.pc = "idle"

\* the running handler is not the oldest one in flight
RunningIsNewer == handler.pc # "idle" /\ parkedHandler.pc # "idle" /\ parkedFirst

\* submission order of two handlers in flight, and whether the older has been overtaken
TrackOrder ==
  /\ parkedFirst' =
       IF handler.pc = "idle" /\ handler'.pc # "idle" THEN parkedHandler.pc # "idle"
       ELSE IF handler'.pc = "idle" THEN FALSE
       ELSE parkedFirst
  /\ overtaken' =
       IF RunningIsNewer /\ Emits THEN TRUE
       ELSE IF handler.pc # "idle" /\ handler'.pc = "idle" /\ ~RunningIsNewer THEN FALSE
       ELSE overtaken

\* a change of a position or of a region: no pass has started since
TrackStarts ==
  startedSince' =
    IF \/ userLocations' # userLocations
       \/ geofences' # geofences
       \/ activeGeofences' # activeGeofences
    THEN 0 ELSE startedSince

Track == TrackAlerts /\ TrackChange /\ TrackPristine /\ TrackOrder /\ TrackStarts

(***************************************************************************)
(* Geofence registry operations                                            *)
(***************************************************************************)
\* the ids among `ids` not yet given to a region (an id is never used twice)
FreshIds(ids) == FilterOut(FilterIn(GeofenceOrder, ids), DOMAIN geofences)

\* activeGeofences.add(id)
SetAdd(s, x) == IF x \in Range(s) THEN s ELSE Append(s, x)

\* activeGeofences.delete(id)
SetDelete(s, x) == FilterOut(s, {x})

newGeofence(lat, radius, key) ==
  [latitude |-> lat, radius |-> radius, is_active |-> TRUE,
   serviceRequestId |-> key, stored |-> TRUE]

\* createGeofence (socket create_geofence, POST /api/geofences): default radius
CreateGeofence(seq, ids, lat) ==
  /\ seq => Quiet
  /\ FreshIds(ids) # <<>>
  /\ geofences' = MapSet(geofences, Head(FreshIds(ids)),
                         newGeofence(lat, DefaultRadius, NoKey))
  /\ activeGeofences' = SetAdd(activeGeofences, Head(FreshIds(ids)))
  /\ UNCHANGED <<userLocations, previousUsersInGeofence, geofenceEvents,
                 connectedUsers, proximityAlerts, handler, sweep, emitted,
                 parkedSweep,
                 parkedHandler,
                 locationDetails,
                 locationHistory,
                 userStatus,
                 allReports,
                 lastRequest,
                 allEvents,
                 createdBy,
                 lastRegionRequest,
                 rooms,
                 delivered,
                 failed,
                 lastQuery,
                 limits,
                 clock,
                 maxRequests,
                 lastCheck,
                 allowedLog,
                 timers,
                 checkInterval,
                 stopped>>
  /\ Track

\* createServiceRequestGeofence: 50 m region carrying the service request id
CreateServiceRequestGeofence(seq, ids, lat, key) ==
  /\ seq => Quiet
  /\ FreshIds(ids) # <<>>
  /\ geofences' = MapSet(geofences, Head(FreshIds(ids)),
                         newGeofence(lat, ServiceRequestRadius, key))
  /\ activeGeofences' = SetAdd(activeGeofences, Head(FreshIds(ids)))
  /\ UNCHANGED <<userLocations, previousUsersInGeofence, geofenceEvents,
                 connectedUsers, proximityAlerts, handler, sweep, emitted,
                 parkedSweep,
                 parkedHandler,
                 locationDetails,
                 locationHistory,
                 userStatus,
                 allReports,
                 lastRequest,
                 allEvents,
                 createdBy,
                 lastRegionRequest,
                 rooms,
                 delivered,
                 failed,
                 lastQuery,
                 limits,
                 clock,
                 maxRequests,
                 lastCheck,
                 allowedLog,
                 timers,
                 checkInterval,
                 stopped>>
  /\ Track

\* the partial updates the model submits: activate, deactivate, re-radius
UpdateChoices ==
  {[is_active |-> TRUE], [is_active |-> FALSE],
   [radius |-> ServiceRequestRadius], [radius |-> DefaultRadius]}

\* Object.assign(geofence, updates)
assign(g, updates) ==
  [f \in DOMAIN g |-> IF f \in DOMAIN updates THEN updates[f] ELSE g[f]]

\* faulty variant of UpdateGeofence: the active set does not follow is_active
UpdateGeofence_FlagOnly(seq, id, updates) ==
  /\ seq => Quiet
  /\ id \in DOMAIN geofences
  /\ geofences[id].stored
  \* the model submits only updates that change a field
  /\ assign(geofences[id], updates) # geofences[id]
  /\ geofences' = [geofences EXCEPT ![id] = assign(@, updates)]
  /\ activeGeofences' = activeGeofences
  /\ UNCHANGED <<userLocations, previousUsersInGeofence, geofenceEvents,
                 connectedUsers, proximityAlerts, handler, sweep, emitted,
                 parkedSweep,
                 parkedHandler,
                 locationDetails,
                 locationHistory,
                 userStatus,
                 allReports,
                 lastRequest,
                 allEvents,
                 createdBy,
                 lastRegionRequest,
                 rooms,
                 delivered,
                 failed,
                 lastQuery,
                 limits,
                 clock,
                 maxRequests,
                 lastCheck,
                 allowedLog,
                 timers,
                 checkInterval,
                 stopped>>
  /\ Track

\* updateGeofence(id, updates) on a stored region
UpdateGeofence(seq, id, updates) ==
  /\ seq => Quiet
  /\ id \in DOMAIN geofences
  /\ geofences[id].stored
  \* the model submits only updates that change a field
  /\ assign(geofences[id], updates) # geofences[id]
  /\ geofences' = [geofences EXCEPT ![id] = assign(@, updates)]
  /\ activeGeofences' =
       IF geofences'[id].is_active
       THEN SetAdd(activeGeofences, id)
       ELSE SetDelete(activeGeofences, id)
  /\ UNCHANGED <<userLocations, previousUsersInGeofence, geofenceEvents,
                 connectedUsers, proximityAlerts, handler, sweep, emitted,
                 parkedSweep,
                 parkedHandler,
                 locationDetails,
                 locationHistory,
                 userStatus,
                 allReports,
                 lastRequest,
                 allEvents,
                 createdBy,
                 lastRegionRequest,
                 rooms,
                 delivered,
                 failed,
                 lastQuery,
                 limits,
                 clock,
                 maxRequests,
                 lastCheck,
                 allowedLog,
                 timers,
                 checkInterval,
                 stopped>>
  /\ Track

\* A deleted Geofence object stays reachable only through a pass in flight; once
\* nothing refers to it, its fields are dropped (garbage)
Collected(id) ==
  IF \/ sweep.pc # "idle" /\ id \in Range(sweep.queue)
     \/ parkedSweep.pc # "idle" /\ id \in Range(parkedSweep.queue)
  THEN [geofences[id] EXCEPT !.stored = FALSE]
  ELSE [newGeofence(0, 0, NoKey) EXCEPT !.stored = FALSE, !.is_active = FALSE]

\* deleteGeofence(id) on a stored region
DeleteGeofence(seq, id) ==
  /\ seq => Quiet
  /\ id \in DOMAIN geofences
  /\ geofences[id].stored
  /\ geofences' = [geofences EXCEPT ![id] = Collected(id)]
  /\ activeGeofences' = SetDelete(activeGeofences, id)
  /\ previousUsersInGeofence' = MapDelete(previousUsersInGeofence, id)
  /\ UNCHANGED <<userLocations, geofenceEvents, connectedUsers, proximityAlerts,
                 handler, sweep, emitted,
                 parkedSweep,
                 parkedHandler,
                 locationDetails,
                 locationHistory,
                 userStatus,
                 allReports,
                 lastRequest,
                 allEvents,
                 createdBy,
                 lastRegionRequest,
                 rooms,
                 delivered,
                 failed,
                 lastQuery,
                 limits,
                 clock,
                 maxRequests,
                 lastCheck,
                 allowedLog,
                 timers,
                 checkInterval,
                 stopped>>
  /\ Track

(***************************************************************************)
(* Position accepted over HTTP (POST /api/locations/me)                    *)
(***************************************************************************)
HttpUpdateLocation(seq, u, p) ==
  /\ seq => Quiet
  \* the model submits only positions that differ from the last known one
  /\ (IF HasLocation(u) THEN userLocations[u] ELSE 0) # p
  /\ userLocations' = updateUserLocation(userLocations, u, p)
  /\ UNCHANGED <<geofences, activeGeofences, previousUsersInGeofence, geofenceEvents,
                 connectedUsers, proximityAlerts, handler, sweep, emitted,
                 parkedSweep,
                 parkedHandler,
                 locationDetails,
                 locationHistory,
                 userStatus,
                 allReports,
                 lastRequest,
                 allEvents,
                 createdBy,
                 lastRegionRequest,
                 rooms,
                 delivered,
                 failed,
                 lastQuery,
                 limits,
                 clock,
                 maxRequests,
                 lastCheck,
                 allowedLog,
                 timers,
                 checkInterval,
                 stopped>>
  /\ Track

(***************************************************************************)
(* Periodic sweep: checkAllActiveGeofences / checkGeofence                 *)
(*   sweep.pc = "locs"     suspended in getUsersInGeofence, allLocations   *)
(*                         read (geofencingService.ts:105)                 *)
(*   sweep.pc = "prev"     users filtered, previous users read (:75)       *)
(*   sweep.pc = "updated"  previous users replaced (:88)                   *)
(***************************************************************************)
RECURSIVE SkipInactive(_)
\* for (const geofence of activeGeofences) if (geofence && geofence.is_active)
SkipInactive(q) ==
  IF q = <<>> THEN q
  ELSE IF geofences[Head(q)].is_active THEN q ELSE SkipInactive(Tail(q))

\* enter checkGeofence for the next region of the queue, or end the pass
SweepEnter(q) ==
  LET rest == SkipInactive(q) IN
  IF rest = <<>> THEN IdleSweep
  ELSE [IdleSweep EXCEPT !.pc = "locs", !.queue = rest, !.locs = getAllUserLocations]

PassDone(next) == Min(IF next.pc = "idle" THEN cleanPasses + 1 ELSE cleanPasses, 2)

\* the interval callback: checkAllActiveGeofences up to the first await
Tick(seq, limit) ==
  /\ sweep.pc = "idle"
  /\ seq => Quiet
  \* the model starts no pass once limit events have been generated
  /\ Len(allEvents) < limit
  /\ sweep' = SweepEnter(getActiveGeofences)
  /\ cleanPasses' = PassDone(sweep')
  /\ failed' = {}
  /\ startedSince' = Min(startedSince + 1, 2)
  /\ UNCHANGED <<userLocations, geofences, activeGeofences, previousUsersInGeofence,
                 geofenceEvents, connectedUsers, proximityAlerts, handler, emitted,
                 alertsSince, pristine,
                 parkedSweep,
                 parkedHandler,
                 parkedFirst,
                 overtaken,
                 locationDetails,
                 locationHistory,
                 userStatus,
                 allReports,
                 lastRequest,
                 allEvents,
                 createdBy,
                 lastRegionRequest,
                 rooms,
                 delivered,
                 lastQuery,
                 limits,
                 clock,
                 maxRequests,
                 lastCheck,
                 allowedLog,
                 timers,
                 checkInterval,
                 stopped>>

\* the interval callback in the specifications with short runs
TickStart(seq) == Tick(seq, MaxEvents)

\* getUsersInGeofence returns; getPreviousUsersInGeofence
SweepFilter ==
  /\ sweep.pc = "locs"
  /\ sweep' = [sweep EXCEPT !.pc = "prev",
                            !.users = usersInside(sweep.locs, geofences[Head(sweep.queue)]),
                            !.prev = MapGetOrEmpty(previousUsersInGeofence, Head(sweep.queue))]
  /\ UNCHANGED <<userLocations, geofences, activeGeofences, previousUsersInGeofence,
                 geofenceEvents, connectedUsers, proximityAlerts, handler, emitted,
                 alertsSince, pristine, cleanPasses,
                 parkedSweep,
                 parkedHandler,
                 parkedFirst,
                 overtaken,
                 locationDetails,
                 locationHistory,
                 userStatus,
                 allReports,
                 lastRequest,
                 allEvents,
                 createdBy,
                 lastRegionRequest,
                 rooms,
                 delivered,
                 startedSince,
                 failed,
                 lastQuery,
                 limits,
                 clock,
                 maxRequests,
                 lastCheck,
                 allowedLog,
                 timers,
                 checkInterval,
                 stopped>>

\* faulty variant of exitsOf: a principal that is no longer inside is not reported
exitsOf_None(locs, prev, users) == <<>>

\* Array.from(previousUsers).filter(id => !currentUsers.has(id)), in the Set's order
exitsOf(locs, prev, users) ==
  LET all == [k \in 1..Len(locs) |-> locs[k].user_id]
  IN  FilterOut(FilterIn(all, prev), Range(users))

\* faulty variant of updatePreviousUsersInGeofence: the snapshot is not replaced
updatePreviousUsersInGeofence_Kept(m, id, users) == m

\* this.previousUsersInGeofence.set(geofenceId, users)
updatePreviousUsersInGeofence(m, id, users) == MapSet(m, id, users)

\* newEntries and exits are computed; updatePreviousUsersInGeofence
SweepUpdate ==
  /\ sweep.pc = "prev"
  /\ sweep' = [sweep EXCEPT !.pc = "updated",
                            !.entries = FilterOut(sweep.users, sweep.prev),
                            !.exits = exitsOf(sweep.locs, sweep.prev, sweep.users)]
  /\ previousUsersInGeofence' =
       updatePreviousUsersInGeofence(previousUsersInGeofence, Head(sweep.queue),
                                     Range(sweep.users))
  /\ UNCHANGED <<userLocations, geofences, activeGeofences, geofenceEvents,
                 connectedUsers, proximityAlerts, handler, emitted, alertsSince,
                 pristine, cleanPasses,
                 parkedSweep,
                 parkedHandler,
                 parkedFirst,
                 overtaken,
                 locationDetails,
                 locationHistory,
                 userStatus,
                 allReports,
                 lastRequest,
                 allEvents,
                 createdBy,
                 lastRegionRequest,
                 rooms,
                 delivered,
                 startedSince,
                 failed,
                 lastQuery,
                 limits,
                 clock,
                 maxRequests,
                 lastCheck,
                 allowedLog,
                 timers,
                 checkInterval,
                 stopped>>

\* processGeofenceEvents / storeGeofenceEvents, then the next region of the loop
SweepEvents ==
  /\ sweep.pc = "updated"
  /\ geofenceEvents' =
       IF Len(sweep.entries) > 0 \/ Len(sweep.exits) > 0
       THEN storeGeofenceEvents(geofenceEvents,
              processGeofenceEvents(Head(sweep.queue), sweep.entries, sweep.exits))
       ELSE geofenceEvents
  /\ allEvents' =
       IF Len(sweep.entries) > 0 \/ Len(sweep.exits) > 0
       THEN allEvents \o
              processGeofenceEvents(Head(sweep.queue), sweep.entries, sweep.exits)
       ELSE allEvents
  /\ sweep' = SweepEnter(Tail(sweep.queue))
  /\ cleanPasses' = PassDone(sweep')
  /\ UNCHANGED <<userLocations, geofences, activeGeofences, previousUsersInGeofence,
                 connectedUsers, proximityAlerts, handler, emitted, alertsSince,
                 pristine,
                 parkedSweep,
                 parkedHandler,
                 parkedFirst,
                 overtaken,
                 locationDetails,
                 locationHistory,
                 userStatus,
                 allReports,
                 lastRequest,
                 createdBy,
                 lastRegionRequest,
                 rooms,
                 delivered,
                 startedSince,
                 failed,
                 lastQuery,
                 limits,
                 clock,
                 maxRequests,
                 lastCheck,
                 allowedLog,
                 timers,
                 checkInterval,
                 stopped>>

\* getUsersInGeofence with failures: the principals of `lost` are left out because
\* isPointInGeofence threw for them (it answers false), or all of them because the
\* reading of the positions threw (getUsersInGeofence answers [])
SweepFilterFailed(lost) ==
  /\ sweep.pc = "locs"
  /\ lost # {}
  /\ sweep' = [sweep EXCEPT !.pc = "prev",
                            !.users = FilterOut(usersInside(sweep.locs,
                                                            geofences[Head(sweep.queue)]),
                                                lost),
                            !.prev = MapGetOrEmpty(previousUsersInGeofence, Head(sweep.queue))]
  /\ failed' = failed \cup {Head(sweep.queue)}
  /\ UNCHANGED <<previousUsersInGeofence, cleanPasses,
                 lastQuery,
                 limits,
                 clock,
                 maxRequests,
                 lastCheck,
                 allowedLog,
                 timers,
                 checkInterval,
                 stopped>>
  /\ UNCHANGED <<userLocations, geofences, activeGeofences, geofenceEvents,
                 connectedUsers, proximityAlerts, handler, emitted, alertsSince,
                 pristine, parkedSweep, parkedHandler, parkedFirst, overtaken,
                 locationDetails, locationHistory, userStatus, allReports,
                 lastRequest, allEvents, createdBy, lastRegionRequest, rooms,
                 delivered, startedSince,
                 lastQuery,
                 limits,
                 clock,
                 maxRequests,
                 lastCheck,
                 allowedLog,
                 timers,
                 checkInterval,
                 stopped>>

\* faulty variant of SweepThrow: the error ends the pass
SweepThrow_Abort ==
  /\ sweep.pc \in {"locs", "prev", "updated"}
  /\ sweep' = IdleSweep
  /\ cleanPasses' = PassDone(sweep')
  /\ failed' = failed \cup {Head(sweep.queue)}
  /\ UNCHANGED previousUsersInGeofence
  /\ UNCHANGED <<userLocations, geofences, activeGeofences, geofenceEvents,
                 connectedUsers, proximityAlerts, handler, emitted, alertsSince,
                 pristine, parkedSweep, parkedHandler, parkedFirst, overtaken,
                 locationDetails, locationHistory, userStatus, allReports,
                 lastRequest, allEvents, createdBy, lastRegionRequest, rooms,
                 delivered, startedSince,
                 lastQuery,
                 limits,
                 clock,
                 maxRequests,
                 lastCheck,
                 allowedLog,
                 timers,
                 checkInterval,
                 stopped>>

\* an error thrown inside checkGeofence(geofence): the catch of checkGeofence logs it
\* and the loop of checkAllActiveGeofences goes on with the next region
SweepThrow ==
  /\ sweep.pc \in {"locs", "prev", "updated"}
  /\ sweep' = SweepEnter(Tail(sweep.queue))
  /\ cleanPasses' = PassDone(sweep')
  /\ failed' = failed \cup {Head(sweep.queue)}
  /\ UNCHANGED previousUsersInGeofence
  /\ UNCHANGED <<userLocations, geofences, activeGeofences, geofenceEvents,
                 connectedUsers, proximityAlerts, handler, emitted, alertsSince,
                 pristine, parkedSweep, parkedHandler, parkedFirst, overtaken,
                 locationDetails, locationHistory, userStatus, allReports,
                 lastRequest, allEvents, createdBy, lastRegionRequest, rooms,
                 delivered, startedSince,
                 lastQuery,
                 limits,
                 clock,
                 maxRequests,
                 lastCheck,
                 allowedLog,
                 timers,
                 checkInterval,
                 stopped>>

\* Two passes are in flight when the interval fires again while a pass is suspended
\* (startGeofenceChecking has no re-entrancy guard): either of them may be the one
\* whose continuation runs next
SwitchSweep ==
  /\ sweep.pc # "idle" \/ parkedSweep.pc # "idle"
  /\ sweep' = parkedSweep
  /\ parkedSweep' = sweep
  /\ UNCHANGED <<userLocations, geofences, activeGeofences, previousUsersInGeofence,
                 geofenceEvents, connectedUsers, proximityAlerts, handler, emitted,
                 alertsSince, pristine, cleanPasses,
                 parkedHandler,
                 parkedFirst,
                 overtaken,
                 locationDetails,
                 locationHistory,
                 userStatus,
                 allReports,
                 lastRequest,
                 allEvents,
                 createdBy,
                 lastRegionRequest,
                 rooms,
                 delivered,
                 startedSince,
                 failed,
                 lastQuery,
                 limits,
                 clock,
                 maxRequests,
                 lastCheck,
                 allowedLog,
                 timers,
                 checkInterval,
                 stopped>>

(***************************************************************************)
(* Connection registry                                                     *)
(***************************************************************************)
ConnectedSockets == {connectedUsers[k].socket : k \in 1..Len(connectedUsers)}

\* handleConnection: this.connectedUsers.set(socket.id, {...})
Connect(seq, s) ==
  /\ seq => Quiet
  /\ s \notin ConnectedSockets
  /\ connectedUsers' = Append(connectedUsers, [socket |-> s, id |-> SocketUser(s),
                                               user_type |-> UserType(SocketUser(s))])
  /\ UNCHANGED <<userLocations, geofences, activeGeofences, previousUsersInGeofence,
                 geofenceEvents, proximityAlerts, handler, sweep, emitted,
                 parkedSweep,
                 parkedHandler,
                 locationDetails,
                 locationHistory,
                 userStatus,
                 allReports,
                 lastRequest,
                 allEvents,
                 createdBy,
                 lastRegionRequest,
                 rooms,
                 delivered,
                 failed,
                 lastQuery,
                 limits,
                 clock,
                 maxRequests,
                 lastCheck,
                 allowedLog,
                 timers,
                 checkInterval,
                 stopped>>
  /\ Track

\* handleDisconnection: this.connectedUsers.delete(socket.id)
Disconnect(seq, s) ==
  /\ seq => Quiet
  /\ s \in ConnectedSockets
  /\ connectedUsers' = LET Test(c) == c.socket # s IN SelectSeq(connectedUsers, Test)
  /\ UNCHANGED <<userLocations, geofences, activeGeofences, previousUsersInGeofence,
                 geofenceEvents, proximityAlerts, handler, sweep, emitted,
                 parkedSweep,
                 parkedHandler,
                 locationDetails,
                 locationHistory,
                 userStatus,
                 allReports,
                 lastRequest,
                 allEvents,
                 createdBy,
                 lastRegionRequest,
                 rooms,
                 delivered,
                 failed,
                 lastQuery,
                 limits,
                 clock,
                 maxRequests,
                 lastCheck,
                 allowedLog,
                 timers,
                 checkInterval,
                 stopped>>
  /\ Track

(***************************************************************************)
(* update_location handler (handleLocationUpdates, part_001:88-147) and    *)
(* checkAndEmitProximityAlerts (part_001:340-436)                          *)
(*   handler.pc = "stored"   suspended at updateUserLocation (:112)        *)
(*   handler.pc = "checked"  checkGeofences returned (:120); at the head   *)
(*                           of the loop over geofenceEvents (:347)        *)
(*   handler.pc = "users"    suspended in getUsersInGeofence (:359)        *)
(*   handler.pc = "fetch"    suspended at fetchVehicleDetails (:388)       *)
(***************************************************************************)
NoSocket == "none"

\* the enrichment lookup's outcomes
FetchOutcomes == {"vehicle", "no_vehicle", "non_200", "error", "timeout"}

\* faulty variant of fetchVehicleDetails: a record is returned whatever the outcome
fetchVehicleDetails_AlwaysRecord(outcome) == "details"

\* fetchVehicleDetails: the vehicle record of a 200 answer that has one, else null
fetchVehicleDetails(outcome) == IF outcome = "vehicle" THEN "details" ELSE "null"

\* userIds.some(id => connectedUsers.values().find(u => u.id === id)?.user_type === type)
hasType(userIds, type) ==
  \E k \in 1..Len(userIds) :
    /\ \E j \in 1..Len(connectedUsers) : connectedUsers[j].id = userIds[k]
    /\ LET j == CHOOSE j \in 1..Len(connectedUsers) :
                  /\ connectedUsers[j].id = userIds[k]
                  /\ \A h \in 1..(j - 1) : connectedUsers[h].id # userIds[k]
       IN  connectedUsers[j].user_type = type

\* findUserSocket: the first connected session of that type whose user is in userIds
findUserSocket(userIds, type) ==
  LET Test(c) == c.id \in Range(userIds) /\ c.user_type = type
      found == SelectSeq(connectedUsers, Test)
  IN  IF found = <<>> THEN NoSocket ELSE found[1].socket

\* the principal a session belongs to
UserOfSocket(s) ==
  LET Test(c) == c.socket = s
  IN  SelectSeq(connectedUsers, Test)[1].id

\* faulty variant of markAlertSent: the marker is not recorded
markAlertSent_Forgotten(m, id, u) == m

\* sentAlerts.add(currentUser.id); this.proximityAlerts.set(geofenceId, sentAlerts)
markAlertSent(m, id, u) == MapSet(m, id, MapGetOrEmpty(m, id) \cup {u})

\* the position a principal had before the update being processed (0: none)
previousPosition(u) == IF HasLocation(u) THEN userLocations[u] ELSE 0

\* update_location received: validate, updateUserLocation
StartUpdate(seq, s, p) ==
  /\ handler.pc = "idle"
  /\ seq => Quiet
  /\ s \in ConnectedSockets
  /\ userLocations' = updateUserLocation(userLocations, SocketUser(s), p)
  /\ handler' = [IdleHandler EXCEPT !.pc = "stored", !.socket = s,
                                    !.user = SocketUser(s),
                                    !.previous = previousPosition(SocketUser(s)),
                                    !.pos = p]
  /\ emitted' = {}
  /\ UNCHANGED <<geofences, activeGeofences, previousUsersInGeofence, geofenceEvents,
                 connectedUsers, proximityAlerts, sweep,
                 parkedSweep,
                 parkedHandler,
                 locationDetails,
                 locationHistory,
                 userStatus,
                 allReports,
                 lastRequest,
                 allEvents,
                 createdBy,
                 lastRegionRequest,
                 rooms,
                 delivered,
                 failed,
                 lastQuery,
                 limits,
                 clock,
                 maxRequests,
                 lastCheck,
                 allowedLog,
                 timers,
                 checkInterval,
                 stopped>>
  /\ Track

\* checkGeofences(locationData); the events are emitted as geofence_events
HandlerCheck ==
  /\ handler.pc = "stored"
  /\ handler' = [handler EXCEPT !.pc = "checked",
                                !.events = checkGeofences(handler.user, handler.pos)]
  /\ UNCHANGED <<userLocations, geofences, activeGeofences, previousUsersInGeofence,
                 geofenceEvents, connectedUsers, proximityAlerts, sweep, emitted,
                 parkedSweep,
                 parkedHandler,
                 locationDetails,
                 locationHistory,
                 userStatus,
                 allReports,
                 lastRequest,
                 allEvents,
                 createdBy,
                 lastRegionRequest,
                 rooms,
                 delivered,
                 failed,
                 lastQuery,
                 limits,
                 clock,
                 maxRequests,
                 lastCheck,
                 allowedLog,
                 timers,
                 checkInterval,
                 stopped>>
  /\ Track

\* the event at the head of the loop is for a region the alert check applies to
AlertCandidate(e) ==
  /\ e.type \in {"location_update", "entry"}
  /\ e.geofence_id \in Range(getActiveGeofences)
  /\ geofences[e.geofence_id].serviceRequestId # NoKey

\* loop head: skip the event, or call getUsersInGeofence; after the loop location_updated
HandlerNext ==
  /\ handler.pc = "checked"
  /\ IF handler.i > Len(handler.events)
     THEN handler' = IdleHandler /\ emitted' = {}
     ELSE /\ emitted' = emitted
          /\ IF AlertCandidate(handler.events[handler.i])
             THEN handler' = [handler EXCEPT !.pc = "users",
                                             !.locs = getAllUserLocations]
             ELSE handler' = [handler EXCEPT !.i = @ + 1]
  /\ UNCHANGED <<userLocations, geofences, activeGeofences, previousUsersInGeofence,
                 geofenceEvents, connectedUsers, proximityAlerts, sweep,
                 parkedSweep,
                 parkedHandler,
                 locationDetails,
                 locationHistory,
                 userStatus,
                 allReports,
                 lastRequest,
                 allEvents,
                 createdBy,
                 lastRegionRequest,
                 rooms,
                 delivered,
                 failed,
                 lastQuery,
                 limits,
                 clock,
                 maxRequests,
                 lastCheck,
                 allowedLog,
                 timers,
                 checkInterval,
                 stopped>>
  /\ Track

\* faulty variant of shouldAlert: the technician is not required
shouldAlert_CustomerOnly(userIds, id, u) ==
  /\ hasType(userIds, "customer")
  /\ u \notin MapGetOrEmpty(proximityAlerts, id)

\* hasCustomer && hasTechnician, and no alert sent yet for the current user
shouldAlert(userIds, id, u) ==
  /\ hasType(userIds, "customer")
  /\ hasType(userIds, "technician")
  /\ u \notin MapGetOrEmpty(proximityAlerts, id)

\* getUsersInGeofence returned: both types present and not yet alerted?
HandlerDecide ==
  /\ handler.pc = "users"
  /\ LET id == handler.events[handler.i].geofence_id
         userIds == usersInside(handler.locs, geofences[id])
     IN  IF shouldAlert(userIds, id, handler.user)
         THEN handler' = [handler EXCEPT !.pc = "fetch", !.userIds = userIds]
         ELSE handler' = [handler EXCEPT !.pc = "checked", !.i = @ + 1, !.locs = <<>>]
  /\ UNCHANGED <<userLocations, geofences, activeGeofences, previousUsersInGeofence,
                 geofenceEvents, connectedUsers, proximityAlerts, sweep, emitted,
                 parkedSweep,
                 parkedHandler,
                 locationDetails,
                 locationHistory,
                 userStatus,
                 allReports,
                 lastRequest,
                 allEvents,
                 createdBy,
                 lastRegionRequest,
                 rooms,
                 delivered,
                 failed,
                 lastQuery,
                 limits,
                 clock,
                 maxRequests,
                 lastCheck,
                 allowedLog,
                 timers,
                 checkInterval,
                 stopped>>
  /\ Track

\* Two handlers of update_location are in flight when an update arrives while the
\* handler of an earlier one is suspended at an await (socket.on starts a handler per
\* message): either of them may be the one whose continuation runs next
SwitchHandler ==
  /\ handler.pc # "idle" \/ parkedHandler.pc # "idle"
  /\ handler' = parkedHandler
  /\ parkedHandler' = handler
  /\ parkedFirst' = (handler.pc # "idle" /\ parkedHandler.pc # "idle" /\ ~parkedFirst)
  /\ UNCHANGED <<userLocations, geofences, activeGeofences, previousUsersInGeofence,
                 geofenceEvents, connectedUsers, proximityAlerts, sweep, emitted,
                 alertsSince, pristine, cleanPasses, parkedSweep, overtaken,
                 locationDetails,
                 locationHistory,
                 userStatus,
                 allReports,
                 lastRequest,
                 allEvents,
                 createdBy,
                 lastRegionRequest,
                 rooms,
                 delivered,
                 startedSince,
                 failed,
                 lastQuery,
                 limits,
                 clock,
                 maxRequests,
                 lastCheck,
                 allowedLog,
                 timers,
                 checkInterval,
                 stopped>>

\* the session the alert of current user u goes to (NoSocket: nothing is emitted)
alertTarget(userIds, u) ==
  IF UserType(u) = "technician" THEN findUserSocket(userIds, "technician")
  ELSE IF UserType(u) = "customer" THEN findUserSocket(userIds, "customer")
  ELSE NoSocket

\* fetchVehicleDetails returned: emit to the session found, mark the alert as sent
HandlerEmit(outcome) ==
  /\ handler.pc = "fetch"
  /\ LET id == handler.events[handler.i].geofence_id
         to == alertTarget(handler.userIds, handler.user)
     IN  /\ emitted' =
              IF to = NoSocket THEN emitted
              ELSE emitted \cup
                     {[to |-> to, toUser |-> UserOfSocket(to), by |-> handler.user,
                       geofence |-> id, vehicle_details |-> fetchVehicleDetails(outcome),
                       fetch |-> outcome]}
         /\ proximityAlerts' = markAlertSent(proximityAlerts, id, handler.user)
  /\ handler' = [handler EXCEPT !.pc = "checked", !.i = @ + 1, !.locs = <<>>,
                                !.userIds = <<>>]
  /\ UNCHANGED <<userLocations, geofences, activeGeofences, previousUsersInGeofence,
                 geofenceEvents, connectedUsers, sweep,
                 parkedSweep,
                 parkedHandler,
                 locationDetails,
                 locationHistory,
                 userStatus,
                 allReports,
                 lastRequest,
                 allEvents,
                 createdBy,
                 lastRegionRequest,
                 rooms,
                 delivered,
                 failed,
                 lastQuery,
                 limits,
                 clock,
                 maxRequests,
                 lastCheck,
                 allowedLog,
                 timers,
                 checkInterval,
                 stopped>>
  /\ Track

(***************************************************************************)
(* Location store in full: LocationService.updateUserLocation and its      *)
(* callers.  An optional field of a submitted position is a sequence:      *)
(* <<>> when it is undefined, <<v>> when it is given.                      *)
(***************************************************************************)
\* 90 and 180 degrees in metres of arc (111000 m per degree)
MaxLatitude == 90 * 111000
MaxLongitude == 180 * 111000

\* the positions submitted: valid ones, one with negative accuracy, three with
\* coordinates out of range
DataChoices ==
  {[latitude |-> 60, longitude |-> 0, accuracy |-> <<10>>, timestamp |-> <<2>>,
    speed |-> <<5>>, heading |-> <<90>>],
   [latitude |-> 60 * MaxPos, longitude |-> 0, accuracy |-> <<>>, timestamp |-> <<1>>,
    speed |-> <<>>, heading |-> <<>>],
   [latitude |-> 60, longitude |-> 0, accuracy |-> <<0>>, timestamp |-> <<>>,
    speed |-> <<>>, heading |-> <<>>],
   [latitude |-> 60, longitude |-> 0, accuracy |-> <<-5>>, timestamp |-> <<2>>,
    speed |-> <<>>, heading |-> <<>>],
   [latitude |-> MaxLatitude + 111000, longitude |-> 0, accuracy |-> <<>>,
    timestamp |-> <<2>>, speed |-> <<>>, heading |-> <<>>],
   [latitude |-> -(MaxLatitude + 111000), longitude |-> 0, accuracy |-> <<>>,
    timestamp |-> <<2>>, speed |-> <<>>, heading |-> <<>>],
   [latitude |-> 60, longitude |-> MaxLongitude + 111000, accuracy |-> <<>>,
    timestamp |-> <<2>>, speed |-> <<>>, heading |-> <<>>]}

\* readings of the clock (new Date())
Times == 1..MaxTime

\* faulty variant of validCoordinates: no upper limit on the latitude
validCoordinates_NoUpperLatitude(d) ==
  ~(\/ d.latitude < -MaxLatitude
    \/ d.longitude < -MaxLongitude
    \/ d.longitude > MaxLongitude)

\* latitude < -90 || latitude > 90 || longitude < -180 || longitude > 180 (negated)
validCoordinates(d) ==
  ~(\/ d.latitude < -MaxLatitude
    \/ d.latitude > MaxLatitude
    \/ d.longitude < -MaxLongitude
    \/ d.longitude > MaxLongitude)

\* the same range check, as the route POST /me makes it
routeCoordinatesValid(d) ==
  ~(\/ d.latitude < -MaxLatitude
    \/ d.latitude > MaxLatitude
    \/ d.longitude < -MaxLongitude
    \/ d.longitude > MaxLongitude)

\* SocketHandler.validateLocationData: the range check, and
\* accuracy && (typeof accuracy !== "number" || accuracy < 0) rejects
validateLocationData(d) ==
  /\ ~(\/ d.latitude < -MaxLatitude
       \/ d.latitude > MaxLatitude
       \/ d.longitude < -MaxLongitude
       \/ d.longitude > MaxLongitude)
  /\ ~(d.accuracy # <<>> /\ d.accuracy[1] # 0 /\ d.accuracy[1] < 0)

\* the LocationData a caller passes on: user_id added, timestamp || new Date()
locationDataOf(u, d, now) ==
  [user_id |-> u, latitude |-> d.latitude, longitude |-> d.longitude,
   accuracy |-> d.accuracy,
   timestamp |-> IF d.timestamp = <<>> THEN now ELSE d.timestamp[1],
   speed |-> d.speed, heading |-> d.heading]

\* the state of the LocationService
locationStore ==
  [userLocations |-> userLocations, locationDetails |-> locationDetails,
   locationHistory |-> locationHistory, userStatus |-> userStatus,
   allReports |-> allReports]

\* the array of a principal in a Map of arrays
ArrayOf(m, u) == IF u \in DOMAIN m THEN m[u] ELSE <<>>

\* faulty variant of pushHistory: the newest entries are dropped, not the oldest
pushHistory_KeepFirst(h, entry) ==
  LET all == Append(h, entry)
  IN  IF Len(all) > HistoryCap THEN SubSeq(all, 1, HistoryCap) ELSE all

\* history.push(entry); if (length > 100) splice(0, length - 100)
pushHistory(h, entry) == LastN(Append(h, entry), HistoryCap)

\* faulty variant of storeLocation: the current position is kept when one exists
storeLocation_KeepCurrent(st, loc) ==
  LET u == loc.user_id IN
  [st EXCEPT !.locationDetails =
               IF u \in DOMAIN st.locationDetails THEN @ ELSE MapSet(@, u, loc),
             !.locationHistory = MapSet(@, u, pushHistory(ArrayOf(@, u), loc)),
             !.userStatus = MapSet(@, u, "online"),
             !.allReports = MapSet(@, u, Append(ArrayOf(@, u), loc))]

\* updateUserLocation past its checks: set the current location, push the history
\* entry, cap the history, set the status
storeLocation(st, loc) ==
  LET u == loc.user_id IN
  [st EXCEPT !.userLocations = updateUserLocation(@, u, loc.latitude),
             !.locationDetails = MapSet(@, u, loc),
             !.locationHistory = MapSet(@, u, pushHistory(ArrayOf(@, u), loc)),
             !.userStatus = MapSet(@, u, "online"),
             !.allReports = MapSet(@, u, Append(ArrayOf(@, u), loc))]

\* LocationService.updateUserLocation(locationData): throws on coordinates out of
\* range before anything is written
updateUserLocationFull(st, loc) ==
  IF validCoordinates(loc) THEN storeLocation(st, loc) ELSE st

\* the answer of the service for a LocationData
resultOf(loc) == IF validCoordinates(loc) THEN "stored" ELSE "rejected"

\* the variables of the LocationService take the values of store st
SetStore(st) ==
  /\ userLocations' = st.userLocations
  /\ locationDetails' = st.locationDetails
  /\ locationHistory' = st.locationHistory
  /\ userStatus' = st.userStatus
  /\ allReports' = st.allReports

\* the number of LocationData accepted so far
TotalReports ==
  LET RECURSIVE Sum(_)
      Sum(S) == IF S = {} THEN 0
                ELSE LET u == CHOOSE x \in S : TRUE
                     IN  Len(allReports[u]) + Sum(S \ {u})
  IN  Sum(DOMAIN allReports)

(***************************************************************************)
(* Region registry in full: the service operations with their not-found    *)
(* answers, and the routes with their ownership check                      *)
(***************************************************************************)
\* the state of the GeofencingService that the registry operations write
registry ==
  [geofences |-> geofences, activeGeofences |-> activeGeofences,
   previousUsersInGeofence |-> previousUsersInGeofence, createdBy |-> createdBy]

\* this.geofences.get(id) finds a region
Known(reg, id) == id \in DOMAIN reg.geofences /\ reg.geofences[id].stored

\* faulty variant of updateGeofenceIn: an unknown id is given a record
updateGeofenceIn_Upsert(reg, id, updates) ==
  [reg EXCEPT !.geofences =
                MapSet(@, id, assign(newGeofence(0, DefaultRadius, NoKey), updates)),
              !.activeGeofences = SetAdd(@, id)]

\* GeofencingService.updateGeofence: throws "Geofence not found" for an unknown id,
\* else Object.assign and the active set follows is_active
updateGeofenceIn(reg, id, updates) ==
  IF ~Known(reg, id) THEN reg
  ELSE LET g == assign(reg.geofences[id], updates) IN
       [reg EXCEPT !.geofences = [@ EXCEPT ![id] = g],
                   !.activeGeofences = IF g.is_active THEN SetAdd(@, id)
                                       ELSE SetDelete(@, id),
                   !.createdBy = IF "created_by" \in DOMAIN updates
                                 THEN MapSet(@, id, updates.created_by) ELSE @]

\* GeofencingService.deleteGeofence: throws "Geofence not found" for an unknown id,
\* else the three deletes
deleteGeofenceIn(reg, id) ==
  IF ~Known(reg, id) THEN reg
  ELSE [reg EXCEPT !.geofences = [@ EXCEPT ![id] = Collected(id)],
                   !.activeGeofences = SetDelete(@, id),
                   !.previousUsersInGeofence = MapDelete(@, id),
                   !.createdBy = MapDelete(@, id)]

\* the answer of the service for id
serviceAnswer(reg, id) == IF Known(reg, id) THEN "ok" ELSE "not_found"

\* the variables of the registry take the values of reg
SetRegistry(reg) ==
  /\ geofences' = reg.geofences
  /\ activeGeofences' = reg.activeGeofences
  /\ previousUsersInGeofence' = reg.previousUsersInGeofence
  /\ createdBy' = reg.createdBy

\* the record of a request on the registry
regionRequestOf(path, u, id, result) ==
  [n |-> 1 - lastRegionRequest.n, path |-> path, by |-> u, id |-> id,
   result |-> result]

\* faulty variant of existingGeofence: the region is looked up among all regions
existingGeofence_AnyUser(u, id) == Known(registry, id)

\* getUserGeofences(userId).find(g => g.id === geofenceId)
existingGeofence(u, id) ==
  Known(registry, id) /\ id \in DOMAIN createdBy /\ createdBy[id] = u

\* POST /api/geofences: createGeofence with created_by: userId
PostGeofence(u, ids, lat) ==
  /\ Quiet
  /\ FreshIds(ids) # <<>>
  /\ LET id == Head(FreshIds(ids)) IN
     /\ geofences' = MapSet(geofences, id, newGeofence(lat, DefaultRadius, NoKey))
     /\ activeGeofences' = SetAdd(activeGeofences, id)
     /\ createdBy' = MapSet(createdBy, id, u)
     /\ lastRegionRequest' = regionRequestOf("post", u, id, "ok")
  /\ UNCHANGED <<userLocations, previousUsersInGeofence, geofenceEvents,
                 connectedUsers, proximityAlerts, handler, sweep, emitted,
                 parkedSweep, parkedHandler, locationDetails, locationHistory,
                 userStatus, allReports, lastRequest, allEvents,
                 rooms,
                 delivered,
                 failed,
                 lastQuery,
                 limits,
                 clock,
                 maxRequests,
                 lastCheck,
                 allowedLog,
                 timers,
                 checkInterval,
                 stopped>>
  /\ Track

\* the part of a route after its checks: the call of the service and the answer
RouteAnswer(path, u, id, reg) ==
  IF ~existingGeofence(u, id)
  THEN /\ SetRegistry(registry)
       /\ lastRegionRequest' = regionRequestOf(path, u, id, "not_found")
  ELSE /\ SetRegistry(reg)
       /\ lastRegionRequest' = regionRequestOf(path, u, id, serviceAnswer(registry, id))

\* PUT /api/geofences/:geofenceId
PutGeofence(u, id, updates) ==
  /\ Quiet
  /\ RouteAnswer("put", u, id, updateGeofenceIn(registry, id, updates))
  /\ UNCHANGED <<userLocations, geofenceEvents,
                 connectedUsers, proximityAlerts, handler, sweep, emitted,
                 parkedSweep, parkedHandler, locationDetails, locationHistory,
                 userStatus, allReports, lastRequest, allEvents,
                 rooms,
                 delivered,
                 failed,
                 lastQuery,
                 limits,
                 clock,
                 maxRequests,
                 lastCheck,
                 allowedLog,
                 timers,
                 checkInterval,
                 stopped>>
  /\ Track

\* DELETE /api/geofences/:geofenceId
DeleteGeofenceRoute(u, id) ==
  /\ Quiet
  /\ RouteAnswer("delete", u, id, deleteGeofenceIn(registry, id))
  /\ UNCHANGED <<userLocations, geofenceEvents,
                 connectedUsers, proximityAlerts, handler, sweep, emitted,
                 parkedSweep, parkedHandler, locationDetails, locationHistory,
                 userStatus, allReports, lastRequest, allEvents,
                 rooms,
                 delivered,
                 failed,
                 lastQuery,
                 limits,
                 clock,
                 maxRequests,
                 lastCheck,
                 allowedLog,
                 timers,
                 checkInterval,
                 stopped>>
  /\ Track

\* PATCH /api/geofences/:geofenceId/toggle: is_active: !existingGeofence.is_active
ToggleGeofence(u, id) ==
  /\ Quiet
  /\ RouteAnswer("toggle", u, id,
                 updateGeofenceIn(registry, id,
                   [is_active |-> ~(Known(registry, id) /\ geofences[id].is_active)]))
  /\ UNCHANGED <<userLocations, geofenceEvents,
                 connectedUsers, proximityAlerts, handler, sweep, emitted,
                 parkedSweep, parkedHandler, locationDetails, locationHistory,
                 userStatus, allReports, lastRequest, allEvents,
                 rooms,
                 delivered,
                 failed,
                 lastQuery,
                 limits,
                 clock,
                 maxRequests,
                 lastCheck,
                 allowedLog,
                 timers,
                 checkInterval,
                 stopped>>
  /\ Track

\* a call of the service itself, past any route: updateGeofence(id, updates)
UpdateGeofenceCall(id, updates) ==
  /\ Quiet
  /\ SetRegistry(updateGeofenceIn(registry, id, updates))
  /\ lastRegionRequest' =
       regionRequestOf("updateGeofence", "none", id, serviceAnswer(registry, id))
  /\ UNCHANGED <<userLocations, geofenceEvents,
                 connectedUsers, proximityAlerts, handler, sweep, emitted,
                 parkedSweep, parkedHandler, locationDetails, locationHistory,
                 userStatus, allReports, lastRequest, allEvents,
                 rooms,
                 delivered,
                 failed,
                 lastQuery,
                 limits,
                 clock,
                 maxRequests,
                 lastCheck,
                 allowedLog,
                 timers,
                 checkInterval,
                 stopped>>
  /\ Track

\* a call of the service itself, past any route: deleteGeofence(id)
DeleteGeofenceCall(id) ==
  /\ Quiet
  /\ SetRegistry(deleteGeofenceIn(registry, id))
  /\ lastRegionRequest' =
       regionRequestOf("deleteGeofence", "none", id, serviceAnswer(registry, id))
  /\ UNCHANGED <<userLocations, geofenceEvents,
                 connectedUsers, proximityAlerts, handler, sweep, emitted,
                 parkedSweep, parkedHandler, locationDetails, locationHistory,
                 userStatus, allReports, lastRequest, allEvents,
                 rooms,
                 delivered,
                 failed,
                 lastQuery,
                 limits,
                 clock,
                 maxRequests,
                 lastCheck,
                 allowedLog,
                 timers,
                 checkInterval,
                 stopped>>
  /\ Track

\* the record of a position request
requestOf(path, u, items) ==
  [n |-> 1 - lastRequest.n, path |-> path, user |-> u, items |-> items]

\* faulty variant of PostLocation: the route also evaluates the regions for the
\* position and stores the events
PostLocation_Evaluates(limit, u, d, now) ==
  /\ Quiet
  /\ TotalReports < limit
  /\ LET loc == locationDataOf(u, d, now) IN
     IF routeCoordinatesValid(d)
     THEN /\ SetStore(updateUserLocationFull(locationStore, loc))
          /\ lastRequest' = requestOf("post", u, <<[location |-> loc,
                                                    result |-> resultOf(loc)]>>)
     ELSE /\ SetStore(locationStore)
          /\ lastRequest' = requestOf("post", u, <<[location |-> loc,
                                                    result |-> "rejected"]>>)
  /\ geofenceEvents' = storeGeofenceEvents(geofenceEvents, checkGeofences(u, d.latitude))
  /\ UNCHANGED <<geofences, activeGeofences, previousUsersInGeofence,
                 connectedUsers, proximityAlerts, handler, sweep, emitted,
                 parkedSweep, parkedHandler,
                 allEvents,
                 createdBy,
                 lastRegionRequest,
                 rooms,
                 delivered,
                 failed,
                 lastQuery,
                 limits,
                 clock,
                 maxRequests,
                 lastCheck,
                 allowedLog,
                 timers,
                 checkInterval,
                 stopped>>
  /\ Track

\* POST /api/locations/me: range check of the route, then updateUserLocation
PostLocation(limit, u, d, now) ==
  /\ Quiet
  /\ TotalReports < limit
  /\ LET loc == locationDataOf(u, d, now) IN
     IF routeCoordinatesValid(d)
     THEN /\ SetStore(updateUserLocationFull(locationStore, loc))
          /\ lastRequest' = requestOf("post", u, <<[location |-> loc,
                                                    result |-> resultOf(loc)]>>)
     ELSE /\ SetStore(locationStore)
          /\ lastRequest' = requestOf("post", u, <<[location |-> loc,
                                                    result |-> "rejected"]>>)
  /\ UNCHANGED <<geofences, activeGeofences, previousUsersInGeofence, geofenceEvents,
                 connectedUsers, proximityAlerts, handler, sweep, emitted,
                 parkedSweep, parkedHandler,
                 allEvents,
                 createdBy,
                 lastRegionRequest,
                 rooms,
                 delivered,
                 failed,
                 lastQuery,
                 limits,
                 clock,
                 maxRequests,
                 lastCheck,
                 allowedLog,
                 timers,
                 checkInterval,
                 stopped>>
  /\ Track

\* the lists submitted to POST /api/locations/bulk
BulkChoices ==
  {<<d>> : d \in DataChoices} \cup
  {<<a, b>> : a \in {d \in DataChoices : d.latitude = 60 /\ d.timestamp = <<2>>},
             b \in {d \in DataChoices : d.timestamp # <<2>>}}

RECURSIVE bulkStore(_, _, _, _)
\* for (const location of locations) await updateUserLocation(locationData)
bulkStore(st, u, list, now) ==
  IF list = <<>> THEN st
  ELSE bulkStore(updateUserLocationFull(st, locationDataOf(u, Head(list), now)),
                 u, Tail(list), now)

\* POST /api/locations/bulk: no check of the route beyond typeof; every element goes
\* to updateUserLocation, a thrown error becomes a failed result
BulkLocation(limit, u, list, now) ==
  /\ Quiet
  /\ TotalReports + Len(list) <= limit
  /\ SetStore(bulkStore(locationStore, u, list, now))
  /\ lastRequest' =
       requestOf("bulk", u,
                 [k \in 1..Len(list) |->
                    [location |-> locationDataOf(u, list[k], now),
                     result |-> resultOf(locationDataOf(u, list[k], now))]])
  /\ UNCHANGED <<geofences, activeGeofences, previousUsersInGeofence, geofenceEvents,
                 connectedUsers, proximityAlerts, handler, sweep, emitted,
                 parkedSweep, parkedHandler,
                 allEvents,
                 createdBy,
                 lastRegionRequest,
                 rooms,
                 delivered,
                 failed,
                 lastQuery,
                 limits,
                 clock,
                 maxRequests,
                 lastCheck,
                 allowedLog,
                 timers,
                 checkInterval,
                 stopped>>
  /\ Track

\* the pairing keys of the active regions
activeServiceRequestIds ==
  {geofences[id].serviceRequestId : id \in Range(getActiveGeofences)} \ {NoKey}

\* broadcastTechnicianLocation: technician_location_update to the room of every
\* pairing key of an active region, then technician_location_broadcast to all sessions
broadcastTechnicianLocation(t) ==
  {[to |-> r.socket, event |-> "technician_location_update", technicianId |-> t,
    serviceRequestId |-> r.serviceRequestId] :
     r \in {x \in rooms : /\ x.technicianId = t
                          /\ x.serviceRequestId \in activeServiceRequestIds
                          /\ x.socket \in ConnectedSockets}}
  \cup
  {[to |-> s, event |-> "technician_location_broadcast", technicianId |-> t,
    serviceRequestId |-> NoKey] : s \in ConnectedSockets}

\* subscribe_technician_location: socket.join(roomName)
Subscribe(s, t, key) ==
  /\ Quiet
  /\ s \in ConnectedSockets
  /\ rooms' = rooms \cup {[socket |-> s, technicianId |-> t, serviceRequestId |-> key]}
  /\ UNCHANGED <<userLocations, geofences, activeGeofences, previousUsersInGeofence,
                 geofenceEvents, connectedUsers, proximityAlerts, handler, sweep,
                 emitted, parkedSweep, parkedHandler, locationDetails,
                 locationHistory, userStatus, allReports, lastRequest, allEvents,
                 createdBy, lastRegionRequest, delivered,
                 failed,
                 lastQuery,
                 limits,
                 clock,
                 maxRequests,
                 lastCheck,
                 allowedLog,
                 timers,
                 checkInterval,
                 stopped>>
  /\ Track

\* unsubscribe_technician_location: socket.leave(roomName)
Unsubscribe(s, t, key) ==
  /\ Quiet
  /\ s \in ConnectedSockets
  /\ rooms' = rooms \ {[socket |-> s, technicianId |-> t, serviceRequestId |-> key]}
  /\ UNCHANGED <<userLocations, geofences, activeGeofences, previousUsersInGeofence,
                 geofenceEvents, connectedUsers, proximityAlerts, handler, sweep,
                 emitted, parkedSweep, parkedHandler, locationDetails,
                 locationHistory, userStatus, allReports, lastRequest, allEvents,
                 createdBy, lastRegionRequest, delivered,
                 failed,
                 lastQuery,
                 limits,
                 clock,
                 maxRequests,
                 lastCheck,
                 allowedLog,
                 timers,
                 checkInterval,
                 stopped>>
  /\ Track

\* update_location over a session: validateLocationData, then updateUserLocation and
\* the rest of the handler; an invalid message is answered with location_error only
UpdateLocationMessage(limit, s, d, now) ==
  /\ Quiet
  /\ TotalReports < limit
  /\ s \in ConnectedSockets
  /\ LET u == SocketUser(s)
         loc == locationDataOf(u, d, now)
     IN  IF validateLocationData(d)
         THEN /\ SetStore(updateUserLocationFull(locationStore, loc))
              /\ handler' = [IdleHandler EXCEPT !.pc = "stored", !.socket = s,
                                                !.user = u,
                                                !.previous = previousPosition(u),
                                                !.pos = d.latitude]
              /\ emitted' = {}
              /\ delivered' = IF UserType(u) = "technician"
                              THEN broadcastTechnicianLocation(u) ELSE {}
              /\ lastRequest' = requestOf("socket", u, <<[location |-> loc,
                                                          result |-> resultOf(loc)]>>)
         ELSE /\ SetStore(locationStore)
              /\ UNCHANGED <<handler, emitted>>
              /\ delivered' = {}
              /\ lastRequest' = requestOf("socket", u, <<[location |-> loc,
                                                          result |-> "rejected"]>>)
  /\ UNCHANGED <<geofences, activeGeofences, previousUsersInGeofence, geofenceEvents,
                 connectedUsers, proximityAlerts, sweep, parkedSweep, parkedHandler,
                 allEvents, createdBy, lastRegionRequest, rooms,
                 failed,
                 lastQuery,
                 limits,
                 clock,
                 maxRequests,
                 lastCheck,
                 allowedLog,
                 timers,
                 checkInterval,
                 stopped>>
  /\ Track

\* the statuses submitted to PUT /api/locations/status
StatusChoices == {"away", "asleep"}

\* PUT /api/locations/status: updateUserStatus for a status of validStatuses
PutStatus(u, status) ==
  /\ Quiet
  /\ userStatus' = IF status \in {"online", "offline", "busy", "away"}
                   THEN MapSet(userStatus, u, status)
                   ELSE userStatus
  /\ lastRequest' = requestOf("status", u, <<>>)
  /\ UNCHANGED <<userLocations, geofences, activeGeofences, previousUsersInGeofence,
                 geofenceEvents, connectedUsers, proximityAlerts, handler, sweep,
                 emitted, parkedSweep, parkedHandler, locationDetails,
                 locationHistory, allReports,
                 allEvents,
                 createdBy,
                 lastRegionRequest,
                 rooms,
                 delivered,
                 failed,
                 lastQuery,
                 limits,
                 clock,
                 maxRequests,
                 lastCheck,
                 allowedLog,
                 timers,
                 checkInterval,
                 stopped>>
  /\ Track

\* faulty variant of CloseSession: the status is left as it was
CloseSession_StatusKept(s) ==
  /\ Quiet
  /\ s \in ConnectedSockets
  /\ userStatus' = userStatus
  /\ connectedUsers' = LET Test(c) == c.socket # s IN SelectSeq(connectedUsers, Test)
  \* socket.io takes a closed session out of its rooms
  /\ rooms' = {r \in rooms : r.socket # s}
  /\ UNCHANGED <<userLocations, geofences, activeGeofences, previousUsersInGeofence,
                 geofenceEvents, proximityAlerts, handler, sweep, emitted,
                 parkedSweep, parkedHandler, locationDetails, locationHistory,
                 allReports, lastRequest,
                 allEvents,
                 createdBy,
                 lastRegionRequest,
                 delivered,
                 failed,
                 lastQuery,
                 limits,
                 clock,
                 maxRequests,
                 lastCheck,
                 allowedLog,
                 timers,
                 checkInterval,
                 stopped>>
  /\ Track

\* handleDisconnection in full: updateUserStatus(user.id, "offline"), then
\* connectedUsers.delete(socket.id)
CloseSession(s) ==
  /\ Quiet
  /\ s \in ConnectedSockets
  /\ userStatus' = MapSet(userStatus, UserOfSocket(s), "offline")
  /\ connectedUsers' = LET Test(c) == c.socket # s IN SelectSeq(connectedUsers, Test)
  \* socket.io takes a closed session out of its rooms
  /\ rooms' = {r \in rooms : r.socket # s}
  /\ UNCHANGED <<userLocations, geofences, activeGeofences, previousUsersInGeofence,
                 geofenceEvents, proximityAlerts, handler, sweep, emitted,
                 parkedSweep, parkedHandler, locationDetails, locationHistory,
                 allReports, lastRequest,
                 allEvents,
                 createdBy,
                 lastRegionRequest,
                 delivered,
                 failed,
                 lastQuery,
                 limits,
                 clock,
                 maxRequests,
                 lastCheck,
                 allowedLog,
                 timers,
                 checkInterval,
                 stopped>>
  /\ Track

(***************************************************************************)
(* Specifications                                                          *)
(***************************************************************************)
\* the region ids available to the dispatcher specification
DispatcherRegions == {"g1"}

\* the dispatcher: sessions, update_location handlers and the region registry,
\* operations processed one after another (periodic sweep not enabled, the default)
Next ==
  \/ \E s \in Sockets : Connect(TRUE, s)
  \/ \E s \in Sockets : Disconnect(TRUE, s)
  \/ \E s \in Sockets, p \in Positions : StartUpdate(TRUE, s, p)
  \/ HandlerCheck
  \/ HandlerNext
  \/ HandlerDecide
  \/ \E o \in FetchOutcomes : HandlerEmit(o)
  \/ \E c \in Centers : CreateGeofence(TRUE, DispatcherRegions, c)
  \/ \E c \in Centers, key \in ServiceRequests :
       CreateServiceRequestGeofence(TRUE, DispatcherRegions, c, key)
  \/ \E id \in GeofenceIds, upd \in UpdateChoices : UpdateGeofence(TRUE, id, upd)
  \/ \E id \in GeofenceIds : DeleteGeofence(TRUE, id)

Spec == Init /\ [][Next]_vars

\* the principals reporting over HTTP in the evaluator specifications
SweepUsers == {"c1", "t1"}

\* the evaluator with the periodic sweep enabled (GEOFENCING_ENABLED = "true"):
\* positions accepted over HTTP, the region registry and the interval callback,
\* operations processed one after another
NextSweep ==
  \/ \E u \in SweepUsers, p \in Positions : HttpUpdateLocation(TRUE, u, p)
  \/ \E c \in Centers : CreateGeofence(TRUE, GeofenceIds, c)
  \/ \E id \in GeofenceIds, upd \in UpdateChoices : UpdateGeofence(TRUE, id, upd)
  \/ \E id \in GeofenceIds : DeleteGeofence(TRUE, id)
  \/ TickStart(TRUE)
  \/ SweepFilter
  \/ SweepUpdate
  \/ SweepEvents

SpecSweep == Init /\ [][NextSweep]_vars

\* the principals and region ids of the interleaved evaluator specification
AsyncUsers == {"c1"}
AsyncRegions == {"g1"}

\* the same evaluator, other operations running while a pass is suspended at an await
NextAsync ==
  \/ \E u \in AsyncUsers, p \in Positions : HttpUpdateLocation(FALSE, u, p)
  \/ \E c \in Centers : CreateGeofence(FALSE, AsyncRegions, c)
  \/ \E id \in GeofenceIds, upd \in UpdateChoices : UpdateGeofence(FALSE, id, upd)
  \/ \E id \in GeofenceIds : DeleteGeofence(FALSE, id)
  \/ TickStart(FALSE)
  \/ SweepFilter
  \/ SweepUpdate
  \/ SweepEvents

SpecAsync == Init /\ [][NextAsync]_vars

\* the evaluator with interval ticks that overlap: a tick starts a pass while the
\* pass of an earlier tick is still suspended at an await
NextOverlap ==
  \/ \E u \in AsyncUsers, p \in Positions : HttpUpdateLocation(FALSE, u, p)
  \/ \E c \in Centers : CreateGeofence(FALSE, AsyncRegions, c)
  \/ TickStart(FALSE)
  \/ SweepFilter
  \/ SweepUpdate
  \/ SweepEvents
  \/ SwitchSweep

SpecOverlap == Init /\ [][NextOverlap]_vars

\* the session that submits position updates in the interleaved dispatcher
OrderSockets == {"s2"}

\* the dispatcher with handlers that interleave: one session (a technician) submits
\* updates, and the handler of an update starts while the handler of the previous
\* one is suspended at an await; the customer reports over HTTP
NextOrder ==
  \/ \E s \in {"s1", "s2"} : Connect(FALSE, s)
  \/ \E p \in Positions : HttpUpdateLocation(FALSE, "c1", p)
  \/ \E c \in Centers, key \in ServiceRequests :
       CreateServiceRequestGeofence(FALSE, DispatcherRegions, c, key)
  \/ \E s \in OrderSockets, p \in Positions : StartUpdate(FALSE, s, p)
  \/ HandlerCheck
  \/ HandlerNext
  \/ HandlerDecide
  \/ \E o \in FetchOutcomes : HandlerEmit(o)
  \/ SwitchHandler

SpecOrder == Init /\ [][NextOrder]_vars

\* the principals and sessions of the location store specification
StoreUsers == {"c1", "t1"}
StoreSockets == {"s1"}

\* the location store in full: positions over HTTP (single and bulk) and over a
\* session, status changes and disconnection, operations one after another
NextLocation ==
  \/ \E u \in StoreUsers, d \in DataChoices, now \in Times :
       PostLocation(MaxReports, u, d, now)
  \/ \E u \in StoreUsers, list \in BulkChoices, now \in Times :
       BulkLocation(MaxReports, u, list, now)
  \/ \E s \in StoreSockets, d \in DataChoices, now \in Times :
       UpdateLocationMessage(MaxReports, s, d, now)
  \/ HandlerCheck
  \/ HandlerNext
  \/ \E s \in StoreSockets : Connect(TRUE, s)
  \/ \E s \in StoreSockets : CloseSession(s)
  \/ \E u \in StoreUsers, status \in StatusChoices : PutStatus(u, status)

SpecLocation == Init /\ [][NextLocation]_vars

\* the k-th position of a principal that reports one position after another
SerialData(u, k) ==
  [latitude |-> 60, longitude |-> 0, accuracy |-> <<>>,
   timestamp |-> <<Len(ArrayOf(allReports, u)) + k>>, speed |-> <<>>, heading |-> <<>>]

\* long runs of accepted positions, submitted one by one or two at a time, for the
\* cap of the history
NextHistory ==
  \/ \E u \in StoreUsers : PostLocation(MaxUpdates, u, SerialData(u, 1), 1)
  \/ \E u \in StoreUsers :
       BulkLocation(MaxUpdates, u, <<SerialData(u, 1), SerialData(u, 2)>>, 1)

SpecHistory == Init /\ [][NextHistory]_vars

\* the principals of the event store specification
EventUsers == {"c1"}

\* long runs of the evaluator for the cap of the event store: principals move in and
\* out of one region of radius 50 and the interval callback evaluates it
NextEvents ==
  \/ \E u \in EventUsers, p \in Positions : HttpUpdateLocation(TRUE, u, p)
  \/ \E c \in Centers, key \in ServiceRequests :
       CreateServiceRequestGeofence(TRUE, AsyncRegions, c, key)
  \/ Tick(TRUE, MaxGenerated)
  \/ SweepFilter
  \/ SweepUpdate
  \/ SweepEvents

SpecEvents == Init /\ [][NextEvents]_vars

\* the session of the activation specification
ToggleSockets == {"s1"}

\* regions switched off and on while a principal reports positions over its session
\* and the interval callback evaluates the regions, operations one after another
NextToggle ==
  \/ \E s \in ToggleSockets : Connect(TRUE, s)
  \/ \E s \in ToggleSockets, p \in Positions : StartUpdate(TRUE, s, p)
  \/ HandlerCheck
  \/ HandlerNext
  \/ \E c \in Centers : CreateGeofence(TRUE, AsyncRegions, c)
  \/ \E id \in AsyncRegions, upd \in UpdateChoices : UpdateGeofence(TRUE, id, upd)
  \/ TickStart(TRUE)
  \/ SweepFilter
  \/ SweepUpdate
  \/ SweepEvents

SpecToggle == Init /\ [][NextToggle]_vars

\* the principals that own and request regions, and the bodies of PUT
RegistryUsers == {"c1", "t1"}
PutChoices == UpdateChoices \cup {[created_by |-> "t1"]}

\* the region registry in full: regions created, updated, toggled and deleted through
\* the routes by owners and by others, the service called with known and unknown
\* ids, a principal reporting positions and the interval callback, one after another
NextRegistry ==
  \/ \E u \in RegistryUsers, c \in Centers : PostGeofence(u, AsyncRegions, c)
  \/ \E u \in RegistryUsers, id \in GeofenceIds, upd \in PutChoices :
       PutGeofence(u, id, upd)
  \/ \E u \in RegistryUsers, id \in GeofenceIds : DeleteGeofenceRoute(u, id)
  \/ \E u \in RegistryUsers, id \in GeofenceIds : ToggleGeofence(u, id)
  \/ \E id \in GeofenceIds, upd \in UpdateChoices : UpdateGeofenceCall(id, upd)
  \/ \E id \in GeofenceIds : DeleteGeofenceCall(id)
  \/ \E u \in AsyncUsers, p \in Positions : HttpUpdateLocation(TRUE, u, p)
  \/ TickStart(TRUE)
  \/ SweepFilter
  \/ SweepUpdate
  \/ SweepEvents

SpecRegistry == Init /\ [][NextRegistry]_vars

\* the sessions and the technicians of the broadcast specification
BroadcastSockets == {"s1", "s2"}
Technicians == {"t1"}
\* the positions reported: those with a timestamp, north of the equator
BroadcastData ==
  {d \in DataChoices : d.timestamp # <<>> /\ d.latitude > 0 /\ d.longitude = 0}

\* positions of a technician sent on to other sessions: sessions subscribe to and
\* unsubscribe from the technician's topic, regions with a pairing key are created and
\* switched off and on, and the sessions report positions, one after another
NextBroadcast ==
  \/ \E s \in BroadcastSockets : Connect(TRUE, s)
  \/ \E s \in BroadcastSockets : CloseSession(s)
  \/ \E s \in BroadcastSockets, t \in Technicians, key \in ServiceRequests :
       Subscribe(s, t, key)
  \/ \E s \in BroadcastSockets, t \in Technicians, key \in ServiceRequests :
       Unsubscribe(s, t, key)
  \/ \E c \in Centers, key \in ServiceRequests :
       CreateServiceRequestGeofence(TRUE, AsyncRegions, c, key)
  \/ \E s \in BroadcastSockets, d \in BroadcastData :
       UpdateLocationMessage(MaxReports, s, d, 1)
  \/ HandlerCheck
  \/ HandlerNext
  \/ HandlerDecide
  \/ \E o \in FetchOutcomes : HandlerEmit(o)

SpecBroadcast == Init /\ [][NextBroadcast]_vars

\* the edits of the geometry of a region: radius 50 or 90, centre 60 or 180
GeometryChoices ==
  {[radius |-> ServiceRequestRadius], [radius |-> DefaultRadius],
   [latitude |-> 60], [latitude |-> 180]}

\* periodic evaluation of regions that are created and edited around principals that
\* report one position and stay there, passes and operations one after another
NextTick ==
  \/ \E u \in SweepUsers, p \in Centers : HttpUpdateLocation(TRUE, u, p)
  \/ \E c \in Centers : CreateGeofence(TRUE, AsyncRegions, c)
  \/ \E id \in AsyncRegions, upd \in GeometryChoices : UpdateGeofence(TRUE, id, upd)
  \/ TickStart(TRUE)
  \/ SweepFilter
  \/ SweepUpdate
  \/ SweepEvents

SpecTick == Init /\ [][NextTick]_vars

\* a principal reporting positions over its session while several regions, some
\* around the same centre, are created, resized and switched off and on
NextInside ==
  \/ \E s \in ToggleSockets : Connect(TRUE, s)
  \/ \E s \in ToggleSockets, p \in Positions : StartUpdate(TRUE, s, p)
  \/ HandlerCheck
  \/ HandlerNext
  \/ \E c \in Centers : CreateGeofence(TRUE, GeofenceIds, c)
  \/ \E id \in GeofenceIds, upd \in UpdateChoices : UpdateGeofence(TRUE, id, upd)

SpecInside == Init /\ [][NextInside]_vars

\* array.slice(start): from max(length + start, 0) when start is negative, from
\* min(start, length) otherwise, to the end; -0 is 0
slice(s, start) ==
  LET from == IF start < 0 THEN Max(Len(s) + start, 0) ELSE Min(start, Len(s))
  IN  SubSeq(s, from + 1, Len(s))

\* getUserLocationHistory(userId, limit): (locationHistory.get(userId) || []).slice(-limit)
getUserLocationHistory(u, limit) ==
  slice(IF u \in DOMAIN locationHistory THEN locationHistory[u] ELSE <<>>, -limit)

\* the events of region id in the event store
eventsOf(id) == LET Test(e) == e.geofence_id = id IN SelectSeq(geofenceEvents, Test)

\* getGeofenceEvents(geofenceId, limit): the events of the region, then slice(-limit)
getGeofenceEvents(id, limit) == slice(eventsOf(id), -limit)

\* parseInt(req.query.limit) || 50
historyLimit(q) == IF q = 0 THEN DefaultHistoryLimit ELSE q

\* GET /api/locations/me/history?limit=q
GetHistory(u, q) ==
  /\ Quiet
  /\ lastQuery' = [path |-> "history", by |-> u, limit |-> q, status |-> "ok",
                   from |-> IF u \in DOMAIN locationHistory THEN locationHistory[u]
                            ELSE <<>>,
                   result |-> getUserLocationHistory(u, historyLimit(q))]
  /\ UNCHANGED <<userLocations, geofences, activeGeofences, previousUsersInGeofence, 
              geofenceEvents, connectedUsers, proximityAlerts, 
              handler, sweep, emitted, alertsSince, pristine, 
              cleanPasses, parkedSweep, parkedHandler, parkedFirst, 
              overtaken, locationDetails, locationHistory, 
              userStatus, allReports, lastRequest, allEvents, 
              createdBy, lastRegionRequest, rooms, delivered, 
              startedSince, failed,
                 limits,
                 clock,
                 maxRequests,
                 lastCheck,
                 allowedLog,
                 timers,
                 checkInterval,
                 stopped>>

\* GET /api/geofences/:geofenceId/events?limit=q: 404 unless the caller's regions
\* hold the id, then getGeofenceEvents(geofenceId, parseInt(limit))
GetEvents(u, id, q) ==
  /\ Quiet
  /\ lastQuery' = IF existingGeofence(u, id)
                  THEN [path |-> "events", by |-> u, limit |-> q, status |-> "ok",
                        from |-> eventsOf(id), result |-> getGeofenceEvents(id, q)]
                  ELSE [path |-> "events", by |-> u, limit |-> q, status |-> "not_found",
                        from |-> <<>>, result |-> <<>>]
  /\ UNCHANGED <<userLocations, geofences, activeGeofences, previousUsersInGeofence, 
              geofenceEvents, connectedUsers, proximityAlerts, 
              handler, sweep, emitted, alertsSince, pristine, 
              cleanPasses, parkedSweep, parkedHandler, parkedFirst, 
              overtaken, locationDetails, locationHistory, 
              userStatus, allReports, lastRequest, allEvents, 
              createdBy, lastRegionRequest, rooms, delivered, 
              startedSince, failed,
                 limits,
                 clock,
                 maxRequests,
                 lastCheck,
                 allowedLog,
                 timers,
                 checkInterval,
                 stopped>>

\* the region asked for in get_geofence_events when the message carries none
NoRegion == "none"

\* socket.on("get_geofence_events", geofenceId?): getGeofenceEvents(geofenceId) with
\* the default limit, all regions' events when no id is given; no check of the caller
GetEventsMessage(s, id) ==
  /\ Quiet
  /\ s \in ConnectedSockets
  /\ LET all == IF id = NoRegion THEN geofenceEvents ELSE eventsOf(id) IN
     lastQuery' = [path |-> "get_geofence_events", by |-> UserOfSocket(s),
                   limit |-> DefaultEventsLimit, status |-> "ok", from |-> all,
                   result |-> slice(all, -DefaultEventsLimit)]
  /\ UNCHANGED <<userLocations, geofences, activeGeofences, previousUsersInGeofence, 
              geofenceEvents, connectedUsers, proximityAlerts, 
              handler, sweep, emitted, alertsSince, pristine, 
              cleanPasses, parkedSweep, parkedHandler, parkedFirst, 
              overtaken, locationDetails, locationHistory, 
              userStatus, allReports, lastRequest, allEvents, 
              createdBy, lastRegionRequest, rooms, delivered, 
              startedSince, failed,
                 limits,
                 clock,
                 maxRequests,
                 lastCheck,
                 allowedLog,
                 timers,
                 checkInterval,
                 stopped>>

\* the limits asked for
Limits == 0..MaxLimit

\* the positions reported in the read specification: inside and outside the region
QueryData == {d \in DataChoices : d.timestamp # <<>> /\ d.longitude = 0
                                  /\ d.latitude > 0 /\ d.accuracy # <<-5>>}

\* reads of the history and of the events of a region with a limit, while a principal
\* reports positions and the interval callback records its entries and exits
NextQuery ==
  \/ \E u \in AsyncUsers, d \in QueryData : PostLocation(MaxReports, u, d, 1)
  \/ \E u \in AsyncUsers, c \in Centers : PostGeofence(u, AsyncRegions, c)
  \/ \E u \in AsyncUsers, id \in AsyncRegions :
       PutGeofence(u, id, [radius |-> ServiceRequestRadius])
  \/ TickStart(TRUE)
  \/ SweepFilter
  \/ SweepUpdate
  \/ SweepEvents
  \/ \E u \in AsyncUsers, q \in Limits : GetHistory(u, q)
  \/ \E u \in AsyncUsers, id \in GeofenceIds, q \in Limits : GetEvents(u, id, q)

SpecQuery == Init /\ [][NextQuery]_vars

\* the registry alone: regions created plainly and for a service request, updated,
\* switched off and on and deleted, while a principal reports and passes run
NextActive ==
  \/ \E c \in Centers : CreateGeofence(TRUE, GeofenceIds, c)
  \/ \E c \in Centers, key \in ServiceRequests :
       CreateServiceRequestGeofence(TRUE, GeofenceIds, c, key)
  \/ \E id \in GeofenceIds, upd \in UpdateChoices : UpdateGeofence(TRUE, id, upd)
  \/ \E id \in GeofenceIds : DeleteGeofence(TRUE, id)
  \/ \E u \in AsyncUsers, p \in Positions : HttpUpdateLocation(TRUE, u, p)
  \/ TickStart(TRUE)
  \/ SweepFilter
  \/ SweepUpdate
  \/ SweepEvents

SpecActive == Init /\ [][NextActive]_vars

\* positions over HTTP, single and in bulk, of two principals while a region exists
\* and the interval callback evaluates it
NextHttp ==
  \/ \E u \in StoreUsers, d \in QueryData : PostLocation(MaxReports, u, d, 1)
  \/ \E u \in StoreUsers, list \in BulkChoices : BulkLocation(MaxReports, u, list, 1)
  \/ \E u \in AsyncUsers, c \in Centers : PostGeofence(u, AsyncRegions, c)
  \/ TickStart(TRUE)
  \/ SweepFilter
  \/ SweepUpdate
  \/ SweepEvents

SpecHttp == Init /\ [][NextHttp]_vars

\* the events of a region read by its owner and by another principal, over HTTP and
\* over a session, while the owner moves in and out and the passes record it
NextAccess ==
  \/ \E u \in AsyncUsers, d \in QueryData : PostLocation(MaxReports, u, d, 1)
  \/ \E u \in AsyncUsers, c \in Centers : PostGeofence(u, AsyncRegions, c)
  \/ TickStart(TRUE)
  \/ SweepFilter
  \/ SweepUpdate
  \/ SweepEvents
  \/ \E s \in BroadcastSockets : Connect(TRUE, s)
  \/ \E u \in RegistryUsers, id \in GeofenceIds : GetEvents(u, id, MaxLimit)
  \/ \E s \in BroadcastSockets, id \in GeofenceIds \cup {NoRegion} :
       GetEventsMessage(s, id)

SpecAccess == Init /\ [][NextAccess]_vars

(***************************************************************************)
(* The interval timer of the periodic evaluation                           *)
(***************************************************************************)
\* the variables the timer calls do not touch
notTimer ==
  <<userLocations, geofences, activeGeofences, previousUsersInGeofence,
    geofenceEvents, connectedUsers, proximityAlerts, handler, sweep,
    emitted, alertsSince, pristine, cleanPasses, parkedSweep,
    parkedHandler, parkedFirst, overtaken, locationDetails,
    locationHistory, userStatus, allReports, lastRequest, allEvents,
    createdBy, lastRegionRequest, rooms, delivered, startedSince,
    failed, lastQuery, limits, clock, maxRequests, lastCheck,
    allowedLog>>

\* the handles setInterval can return
TimerIds == 1..MaxTimers

\* startGeofenceChecking(): this.checkInterval = setInterval(...)
StartGeofenceChecking ==
  /\ TimerIds \ timers # {}
  /\ LET t == CHOOSE x \in TimerIds \ timers : \A y \in TimerIds \ timers : x <= y IN
     /\ timers' = timers \cup {t}
     /\ checkInterval' = t
  /\ stopped' = FALSE
  /\ UNCHANGED notTimer

\* stopGeofenceChecking(): if (this.checkInterval) { clearInterval; checkInterval = null }
StopGeofenceChecking ==
  /\ IF checkInterval # 0
     THEN timers' = timers \ {checkInterval} /\ checkInterval' = 0
     ELSE UNCHANGED <<timers, checkInterval>>
  /\ stopped' = TRUE
  /\ UNCHANGED notTimer

\* an armed timer fires: the callback runs checkAllActiveGeofences
TimerTick(t) ==
  /\ t \in timers
  /\ TickStart(TRUE)

\* the timer calls in any order, a principal reporting positions, a region, and the
\* passes the armed timers start
NextTimer ==
  \/ StartGeofenceChecking
  \/ StopGeofenceChecking
  \/ \E t \in TimerIds : TimerTick(t)
  \/ SweepFilter
  \/ SweepUpdate
  \/ SweepEvents
  \/ \E u \in AsyncUsers, p \in Positions : HttpUpdateLocation(TRUE, u, p)
  \/ \E c \in Centers : CreateGeofence(TRUE, AsyncRegions, c)

SpecTimer == Init /\ [][NextTimer]_vars

(***************************************************************************)
(* RateLimiter                                                             *)
(***************************************************************************)
\* the variables the rate limiter does not touch
notRate ==
  <<userLocations, geofences, activeGeofences, previousUsersInGeofence,
    geofenceEvents, connectedUsers, proximityAlerts, handler, sweep,
    emitted, alertsSince, pristine, cleanPasses, parkedSweep,
    parkedHandler, parkedFirst, overtaken, locationDetails,
    locationHistory, userStatus, allReports, lastRequest, allEvents,
    createdBy, lastRegionRequest, rooms, delivered, startedSince,
    failed, lastQuery>>

\* windowMs and blockDuration in units of the clock: the window of 15 minutes is one
\* unit, the block duration of one hour is four
WindowMs == 1
BlockDuration == 4

\* the values of RATE_LIMIT_MAX_REQUESTS the limiter is constructed with
RateChoices == {1, 2, DefaultMaxRequests}

\* the keys of the HTTP middleware (generateKey) and of the socket middleware
HttpKeys == {"user:c1"}
SocketKeys == {"socket:c1"}

\* new RateLimiter()
Construct(m) ==
  /\ maxRequests = 0
  /\ maxRequests' = m
  /\ UNCHANGED <<limits, clock, lastCheck, allowedLog,
                 timers,
                 checkInterval,
                 stopped>>
  /\ UNCHANGED notRate

\* time passes
ClockTick ==
  /\ clock < MaxClock
  /\ clock' = clock + 1
  /\ UNCHANGED <<limits, maxRequests, lastCheck, allowedLog,
                 timers,
                 checkInterval,
                 stopped>>
  /\ UNCHANGED notRate

\* faulty variant of checkLimit: a request is refused only above maxRequests
checkLimit_OffByOne(lim, key, now) ==
  IF key \notin DOMAIN lim \/ now > lim[key].resetTime
  THEN [limits |-> MapSet(lim, key, [count |-> 1, resetTime |-> now + WindowMs]),
        allowed |-> TRUE, remaining |-> maxRequests - 1]
  ELSE IF lim[key].count > maxRequests
       THEN [limits |-> lim, allowed |-> FALSE, remaining |-> 0]
       ELSE [limits |-> [lim EXCEPT ![key].count = @ + 1],
             allowed |-> TRUE, remaining |-> maxRequests - (lim[key].count + 1)]

\* checkLimit(key): a new entry when there is none or the window is over, a refusal
\* when the count has reached maxRequests, the count incremented otherwise
checkLimit(lim, key, now) ==
  IF key \notin DOMAIN lim \/ now > lim[key].resetTime
  THEN [limits |-> MapSet(lim, key, [count |-> 1, resetTime |-> now + WindowMs]),
        allowed |-> TRUE, remaining |-> maxRequests - 1]
  ELSE IF lim[key].count >= maxRequests
       THEN [limits |-> lim, allowed |-> FALSE, remaining |-> 0]
       ELSE [limits |-> [lim EXCEPT ![key].count = @ + 1],
             allowed |-> TRUE, remaining |-> maxRequests - (lim[key].count + 1)]

\* the window of the key at the time of a request, as an observer counts it: a new
\* one when the key has none or the last one is over
windowOf(key) ==
  IF key \notin DOMAIN allowedLog \/ clock > allowedLog[key].resetTime
  THEN [allowed |-> 0, resetTime |-> clock + WindowMs]
  ELSE allowedLog[key]

\* a request passes one of the middlewares: checkLimit(key), then next() or the refusal
Limited(key) ==
  /\ maxRequests # 0
  /\ LET result == checkLimit(limits, key, clock) IN
     /\ limits' = result.limits
     /\ lastCheck' = [n |-> 1 - lastCheck.n, key |-> key, allowed |-> result.allowed,
                      remaining |-> result.remaining]
     /\ allowedLog' = MapSet(allowedLog, key,
                             [windowOf(key) EXCEPT
                                !.allowed = @ + (IF result.allowed THEN 1 ELSE 0)])
  /\ UNCHANGED <<clock, maxRequests,
                 timers,
                 checkInterval,
                 stopped>>
  /\ UNCHANGED notRate

\* middleware(req, res, next)
RateMiddleware(key) == Limited(key)

\* socketMiddleware(socket, next); with the default limit the model exercises the
\* HTTP key alone
RateSocketMiddleware(key) == maxRequests # DefaultMaxRequests /\ Limited(key)

\* cleanup(): the entries whose window ended more than blockDuration ago are deleted
Cleanup ==
  /\ limits' = [k \in {j \in DOMAIN limits :
                         ~(clock > limits[j].resetTime + BlockDuration)} |-> limits[k]]
  /\ UNCHANGED <<clock, maxRequests, lastCheck, allowedLog,
                 timers,
                 checkInterval,
                 stopped>>
  /\ UNCHANGED notRate

\* the rate limiter alone: constructed once, requests of an HTTP caller and of a
\* socket caller while time passes, and the cleanup timer
NextRate ==
  \/ \E m \in RateChoices : Construct(m)
  \/ ClockTick
  \/ \E key \in HttpKeys : RateMiddleware(key)
  \/ \E key \in SocketKeys : RateSocketMiddleware(key)
  \/ Cleanup

SpecRate == Init /\ [][NextRate]_vars

\* the sets of principals whose position cannot be evaluated
LostChoices == {{"c1"}, {"c1", "t1"}}

\* the periodic evaluation with failures: the evaluation of a region can throw at any
\* of its steps and the reading of positions can fail, passes one after another
NextFail ==
  \/ \E u \in AsyncUsers, p \in Positions : HttpUpdateLocation(TRUE, u, p)
  \/ \E c \in Centers : CreateGeofence(TRUE, GeofenceIds, c)
  \/ TickStart(TRUE)
  \/ SweepFilter
  \/ SweepUpdate
  \/ SweepEvents
  \/ \E lost \in LostChoices : SweepFilterFailed(lost)
  \/ SweepThrow

\* a continuation of a pass whose promise has resolved is run by the event loop
SweepSteps ==
  \/ SweepFilter
  \/ SweepUpdate
  \/ SweepEvents
  \/ SweepThrow

SpecFail == Init /\ [][NextFail]_vars /\ WF_vars(SweepSteps)

\* the sessions of the connection registry specification: s1 and s4 are opened by
\* the same principal (two devices or tabs with the same token)
RegistrySockets == {"s1", "s2", "s4"}

\* the connection registry: sessions connect, report positions and disconnect
NextSessions ==
  \/ \E s \in RegistrySockets : Connect(TRUE, s)
  \/ \E s \in RegistrySockets : CloseSession(s)
  \/ \E s \in RegistrySockets, d \in BroadcastData :
       UpdateLocationMessage(MaxReports, s, d, 1)
  \/ HandlerCheck
  \/ HandlerNext

SpecSessions == Init /\ [][NextSessions]_vars

(***************************************************************************)
(* Properties of the dispatcher (specification Spec)                       *)
(***************************************************************************)
\* the loop of checkAndEmitProximityAlerts is over: the handler has processed
\* every event of its update and is about to confirm it
HandlerDone == handler.pc = "checked" /\ handler.i > Len(handler.events)

\* region id is stored, active and carries a pairing key
Eligible(id) ==
  /\ id \in DOMAIN geofences
  /\ geofences[id].stored
  /\ geofences[id].is_active
  /\ id \in Range(activeGeofences)
  /\ geofences[id].serviceRequestId # NoKey

\* number of events of a type for (region, principal) among the events of the handler
Generated(type, id, u) ==
  Cardinality({k \in 1..Len(handler.events) :
                 /\ handler.events[k].type = type
                 /\ handler.events[k].geofence_id = id
                 /\ handler.events[k].user_id = u})

\* C1: for a region with a pairing key, the number of proximity_alert emissions
\* triggered by one principal is at most 1 between two consecutive "pair becomes
\* present" transitions of the region, over any sequence of position updates
\* processed one after another.
C1_AtMostOneAlertPerPairing ==
  \A id \in GeofenceIds : \A u \in Users : alertsSince[id][u] <= 1

\* C1 witness: a principal that was already alerted since the pair became present
\* has sent a further update inside the region, and no second alert was emitted.
C1_Witness ==
  \E id \in GeofenceIds :
    /\ HandlerDone
    /\ Eligible(id)
    /\ PairPresent(id)
    /\ handler.user \in InsideNow(id)
    /\ Generated("location_update", id, handler.user) = 1
    /\ emitted = {}
    /\ alertsSince[id][handler.user] = 1

\* C2: the alert-sent marker of a region is cleared whenever the region no longer
\* contains a customer and a technician, so that a principal that was alerted,
\* left and re-entered while the other role is inside gets a second alert: when
\* its update inside the region has been processed with the pair present, it has
\* been alerted since the pair became present.
C2_MarkerClearedAndRealert ==
  \A id \in DOMAIN proximityAlerts :
    /\ (/\ Quiet
        /\ geofences[id].stored
        /\ ~({"customer", "technician"} \subseteq {UserType(u) : u \in InsideNow(id)}))
       => proximityAlerts[id] = {}
    /\ (HandlerDone /\ Eligible(id) /\ PairPresent(id)
          /\ Generated("location_update", id, handler.user) = 1)
         => alertsSince[id][handler.user] >= 1

\* C3: once a connected customer and a connected technician have both reported a
\* position inside a region with a pairing key, one update each, exactly one
\* proximity_alert has been emitted for each of them.
C3_BothAlertedAfterOneUpdateEach ==
  \A id \in GeofenceIds : \A a, b \in Users :
    (/\ HandlerDone
     /\ handler.user = b
     /\ handler.previous = 0
     /\ Eligible(id)
     /\ id \in pristine
     /\ DOMAIN userLocations = {a, b}
     /\ {UserType(a), UserType(b)} = {"customer", "technician"}
     /\ {a, b} \subseteq InsideNow(id) \cap ConnectedIds)
    => (alertsSince[id][a] = 1 /\ alertsSince[id][b] = 1)

\* C4: every proximity_alert emitted while processing a principal's update is sent
\* to a session of that principal, also with several principals of its role
\* inside the region.
C4_AlertToOwnSession == \A a \in emitted : a.toUser = a.by

\* C5: a proximity_alert is emitted for a region only if the region carries a
\* pairing key and is active and, at the time of the check, the principals whose
\* last known position is inside it include a connected customer and a connected
\* technician.
C5_AlertOnlyForPairInKeyedRegion ==
  [][\A a \in emitted' \ emitted :
       /\ Eligible(a.geofence)
       /\ ConnectedInside(a.geofence, "customer") # {}
       /\ ConnectedInside(a.geofence, "technician") # {}]_vars

\* C5 witness: an alert has been emitted for an eligible region holding the pair.
C5_Witness ==
  \E a \in emitted : Eligible(a.geofence) /\ PairPresent(a.geofence)

\* C6: when the pair is present and the triggering principal has no alert-sent
\* marker, the alert check goes on to the enrichment lookup, and whatever the
\* lookup's outcome the proximity_alert is emitted; on a failure, a non-200
\* answer or a timeout its vehicle_details is null.
C6_EnrichmentFailureStillAlerts ==
  [][LET id == handler.events[handler.i].geofence_id IN
     /\ (/\ handler.pc = "users"
         /\ handler' # handler
         /\ PairPresent(id)
         /\ handler.user \notin MapGetOrEmpty(proximityAlerts, id))
        => handler'.pc = "fetch"
     /\ (handler.pc = "fetch" /\ handler' # handler)
        => \E a \in emitted' \ emitted :
             /\ a.by = handler.user
             /\ a.geofence = id
             /\ a.fetch \in {"non_200", "error", "timeout"} => a.vehicle_details = "null"]_vars

\* C6 witness: an alert emitted after the lookup timed out, carrying null.
C6_Witness ==
  \E a \in emitted : a.fetch = "timeout" /\ a.vehicle_details = "null"

\* C7: a principal's first accepted update inside an active region generates
\* exactly one entry event for (region, principal); a following update still
\* inside generates no entry and no exit event and exactly one location_update.
C7_FirstUpdateInsideGivesEntry ==
  \A id \in DOMAIN geofences :
    (/\ handler.pc = "checked"
     /\ geofences[id].stored
     /\ geofences[id].is_active
     /\ id \in pristine
     /\ isPointInGeofence(handler.pos, geofences[id]))
    => IF handler.previous = 0
       THEN Generated("entry", id, handler.user) = 1
       ELSE isPointInGeofence(handler.previous, geofences[id])
            => /\ Generated("entry", id, handler.user) = 0
               /\ Generated("exit", id, handler.user) = 0
               /\ Generated("location_update", id, handler.user) = 1

(***************************************************************************)
(* Properties of the evaluator (specifications SpecSweep, SpecAsync)       *)
(***************************************************************************)
\* C8: evaluating the regions twice in a row with no change of any position or
\* region in between generates no entry and no exit event in the second run and
\* leaves every membership snapshot unchanged.
C8_SecondSweepIdempotent ==
  [][(cleanPasses >= 1 /\ sweep' # sweep)
       => /\ geofenceEvents' = geofenceEvents
          /\ previousUsersInGeofence' = previousUsersInGeofence]_vars

\* C8 witness: a second pass in a row has completed over a region that holds a
\* principal whose entry the first pass recorded.
C8_Witness ==
  /\ cleanPasses = 2
  /\ sweep.pc = "idle"
  /\ geofenceEvents # <<>>
  /\ \E id \in Range(getActiveGeofences) :
       /\ geofences[id].is_active
       /\ InsideNow(id) # {}
       /\ MapGetOrEmpty(previousUsersInGeofence, id) = InsideNow(id)

\* C9: after every completed evaluation pass, the membership snapshot of every
\* stored region equals the set of principals whose last known position is inside
\* it when the region is active, and is empty when the region is inactive.
C9_SnapshotRestoredByPass ==
  (sweep.pc = "idle" /\ cleanPasses >= 1)
  => \A id \in DOMAIN geofences :
       geofences[id].stored
       => MapGetOrEmpty(previousUsersInGeofence, id) =
            IF geofences[id].is_active THEN InsideNow(id) ELSE {}

\* the last entry or exit event stored for (region, principal) is an entry
LastIsEntry(id, u) ==
  LET ks == {k \in 1..Len(geofenceEvents) :
               /\ geofenceEvents[k].geofence_id = id
               /\ geofenceEvents[k].user_id = u}
  IN  /\ ks # {}
      /\ geofenceEvents[CHOOSE k \in ks : \A j \in ks : j <= k].type = "entry"

\* the snapshots agree with the event store: a principal is in the snapshot of a
\* stored region exactly if its last stored event for the region is an entry
SnapshotMatchesEvents ==
  \A id \in DOMAIN geofences : \A u \in Users :
    geofences[id].stored
    => (u \in MapGetOrEmpty(previousUsersInGeofence, id) <=> LastIsEntry(id, u))

StoredTypes(id, u) ==
  LET Test(e) == e.geofence_id = id /\ e.user_id = u
      es == SelectSeq(geofenceEvents, Test)
  IN  [k \in 1..Len(es) |-> es[k].type]

C12_MessagesInSubmissionOrder ==
  [][(Emits /\ ~RunningIsNewer) => ~overtaken]_vars

\* C19: when deleteGeofence(id) has succeeded the region is neither stored nor in the
\* active set, and it has neither a membership snapshot nor an alert-sent marker; a
\* region that is created has no snapshot and no marker.
C19_DeleteCascades ==
  [][\A id \in GeofenceIds :
       /\ (/\ id \in DOMAIN geofences
           /\ geofences[id].stored
           /\ ~geofences'[id].stored)
          => /\ id \notin Range(activeGeofences')
             /\ id \notin DOMAIN previousUsersInGeofence'
             /\ id \notin DOMAIN proximityAlerts'
       /\ (id \notin DOMAIN geofences /\ id \in DOMAIN geofences')
          => /\ id \notin DOMAIN previousUsersInGeofence'
             /\ id \notin DOMAIN proximityAlerts']_vars

\* the types of the events generated for (region, principal), in generation order
GeneratedTypes(id, u) ==
  LET Test(e) == e.geofence_id = id /\ e.user_id = u
      es == SelectSeq(allEvents, Test)
  IN  [k \in 1..Len(es) |-> es[k].type]

\* C26: once an interval tick has started and completed after the last change of a region or of a
\* position, every principal whose last position is inside an active region is in the
\* region's snapshot with exactly one entry event recorded since it was last outside,
\* and every other principal is out of the snapshot, with exactly one exit event
\* recorded if it had entered: entries and exits of a principal alternate, and the
\* last one is an entry exactly for the principals inside.
C26_TickCatchesRegionChange ==
  (sweep.pc = "idle" /\ parkedSweep.pc = "idle" /\ startedSince >= 1) =>
    \A id \in DOMAIN geofences :
      (geofences[id].stored /\ geofences[id].is_active) =>
        /\ MapGetOrEmpty(previousUsersInGeofence, id) = InsideNow(id)
        /\ \A u \in Users :
             LET ts == GeneratedTypes(id, u) IN
             /\ \A k \in 1..Len(ts) : ts[k] = IF k % 2 = 1 THEN "entry" ELSE "exit"
             /\ (u \in InsideNow(id)) <=> (Len(ts) % 2 = 1)

\* a principal that never moved was taken into the region when it was created and
\* out of it when the region was edited, one event each, and a pass has completed
\* since
C26_Witness ==
  \E id \in DOMAIN geofences : \E u \in DOMAIN userLocations :
    /\ sweep.pc = "idle" /\ startedSince >= 1
    /\ geofences[id].stored /\ geofences[id].is_active
    /\ u \notin InsideNow(id)
    /\ u \notin MapGetOrEmpty(previousUsersInGeofence, id)
    /\ GeneratedTypes(id, u) = <<"entry", "exit">>

(***************************************************************************)
(* Properties of the activation of regions (specification SpecToggle)      *)
(***************************************************************************)
\* this step is an updateGeofence that sets region id inactive
TurnedOff(id) ==
  /\ id \in DOMAIN geofences
  /\ geofences[id].stored /\ geofences[id].is_active
  /\ geofences'[id].stored /\ ~geofences'[id].is_active

\* this step is an updateGeofence that sets region id active
TurnedOn(id) ==
  /\ id \in DOMAIN geofences
  /\ geofences[id].stored /\ ~geofences[id].is_active
  /\ geofences'[id].stored /\ geofences'[id].is_active

\* region id is inactive before and after this step
InactiveThrough(id) ==
  /\ id \in DOMAIN geofences
  /\ geofences[id].stored /\ ~geofences[id].is_active
  /\ ~geofences'[id].is_active

\* C20: an updateGeofence that sets a region inactive takes its id out of the active
\* set and keeps the record (but for the flag), the membership snapshot and the stored
\* events; while the region is inactive no pass and no position update generates an
\* event for it and its snapshot stays; an updateGeofence that sets it active puts
\* the id back in the active set.
C20_InactiveRegionSilent ==
  [][\A id \in GeofenceIds :
       /\ TurnedOff(id) =>
            /\ id \notin Range(activeGeofences')
            /\ geofences'[id] = [geofences[id] EXCEPT !.is_active = FALSE]
            /\ previousUsersInGeofence' = previousUsersInGeofence
            /\ geofenceEvents' = geofenceEvents
       /\ TurnedOn(id) => id \in Range(activeGeofences')
       /\ InactiveThrough(id) =>
            /\ id \notin Range(activeGeofences')
            /\ \A k \in (Len(allEvents) + 1)..Len(allEvents') :
                 allEvents'[k].geofence_id # id
            /\ handler' # handler =>
                 \A k \in 1..Len(handler'.events) :
                   handler'.events[k].geofence_id # id
            /\ geofenceEvents' = geofenceEvents
            /\ (id \in DOMAIN previousUsersInGeofence')
                 = (id \in DOMAIN previousUsersInGeofence)
            /\ MapGetOrEmpty(previousUsersInGeofence', id)
                 = MapGetOrEmpty(previousUsersInGeofence, id)]_vars

\* a region is inactive with its snapshot and its entry event kept, the principal of
\* the snapshot has since reported a position outside it over its session, and a pass
\* has run after that
C20_Witness ==
  \E id \in DOMAIN geofences :
    /\ geofences[id].stored /\ ~geofences[id].is_active
    /\ id \notin Range(activeGeofences)
    /\ Quiet
    /\ cleanPasses >= 1
    /\ MapGetOrEmpty(previousUsersInGeofence, id) # {}
    /\ InsideNow(id) = {}
    /\ \E k \in 1..Len(geofenceEvents) :
         geofenceEvents[k].geofence_id = id /\ geofenceEvents[k].type = "entry"

(***************************************************************************)
(* Properties of the location store (specification SpecLocation)           *)
(***************************************************************************)
\* a position request has just been answered
Answered == lastRequest' # lastRequest /\ lastRequest'.path # "status"

\* the positions a request had stored
StoredOf(req) ==
  LET Test(item) == item.result = "stored"
      kept == SelectSeq(req.items, Test)
  IN  [k \in 1..Len(kept) |-> kept[k].location]

\* coordinates outside [-90, 90] x [-180, 180]
OutOfRange(loc) ==
  \/ loc.latitude \notin (-MaxLatitude)..MaxLatitude
  \/ loc.longitude \notin (-MaxLongitude)..MaxLongitude

\* an accuracy is provided and negative
NegativeAccuracy(loc) == loc.accuracy # <<>> /\ loc.accuracy[1] < 0

\* C13: of the accepted updates of a principal, the one with the greatest timestamp
\* is the current position once the updates have completed, whatever their order of
\* arrival.
C13_LatestTimestampIsCurrent ==
  Quiet =>
    \A u \in DOMAIN allReports : \A k \in 1..Len(allReports[u]) :
      allReports[u][k].timestamp <= locationDetails[u].timestamp

C15_NegativeAccuracyRejected ==
  /\ \A k \in 1..Len(lastRequest.items) :
       NegativeAccuracy(lastRequest.items[k].location)
         => lastRequest.items[k].result = "rejected"
  /\ \A u \in DOMAIN allReports : \A k \in 1..Len(allReports[u]) :
       ~NegativeAccuracy(allReports[u][k])

\* getUserLocation(u) returns the last accepted position of u, field by field
ReturnsLastAccepted(details, reports, u) ==
  LET p == reports[u][Len(reports[u])]
      q == details[u]
  IN  /\ q.latitude = p.latitude /\ q.longitude = p.longitude
      /\ q.accuracy = p.accuracy /\ q.speed = p.speed /\ q.heading = p.heading
      /\ q.timestamp = p.timestamp

\* C17 as stated: from an accepted update of a principal to its next one,
\* getUserLocation returns that update's position and the status is "online".
C17_RoundTripUntilNextUpdate ==
  \A u \in DOMAIN allReports :
    /\ ReturnsLastAccepted(locationDetails, allReports, u)
    /\ userStatus[u] = "online"

\* this step is a status change of u (PUT /status)
StatusChanged(u) ==
  lastRequest' # lastRequest /\ lastRequest'.path = "status" /\ lastRequest'.user = u

\* this step closes a session of u
Disconnected(u) ==
  /\ Len(connectedUsers') < Len(connectedUsers)
  /\ \E k \in 1..Len(connectedUsers) : connectedUsers[k].id = u

\* C17: from an accepted update of a principal to its next one, getUserLocation
\* returns that update's position; the update sets the status to "online", and the
\* status stays "online" until a status change or a disconnection of the principal.
C17_RoundTripUntilStatusChange ==
  [][\A u \in DOMAIN allReports' :
       /\ ReturnsLastAccepted(locationDetails', allReports', u)
       /\ ArrayOf(allReports, u) # allReports'[u] => userStatus'[u] = "online"
       /\ (/\ u \in DOMAIN userStatus
           /\ userStatus[u] = "online"
           /\ ~StatusChanged(u)
           /\ ~Disconnected(u)) => userStatus'[u] = "online"]_vars

\* a second accepted update has replaced the first, and a status change of another
\* principal has left position and status as they were
C17_Witness ==
  \E u \in DOMAIN allReports :
    /\ Len(allReports[u]) = 2
    /\ allReports[u][1] # allReports[u][2]
    /\ locationDetails[u] = allReports[u][2]
    /\ userStatus[u] = "online"
    /\ lastRequest.path = "status"
    /\ lastRequest.user # u

\* C23: when a session disconnects it leaves the connection registry and the status
\* of its principal becomes "offline", while the current position and the history of
\* every principal stay as they were.
C23_DisconnectKeepsPosition ==
  [][\A s \in ConnectedSockets :
       s \notin {connectedUsers'[k].socket : k \in 1..Len(connectedUsers')} =>
         LET u == UserOfSocket(s) IN
         /\ u \in DOMAIN userStatus'
         /\ userStatus'[u] = "offline"
         /\ userLocations' = userLocations
         /\ locationDetails' = locationDetails
         /\ locationHistory' = locationHistory]_vars

\* the session of a principal with a recorded position has been closed: the position
\* is still returned and the status is "offline"
C23_Witness ==
  \E u \in DOMAIN locationDetails :
    /\ userStatus[u] = "offline"
    /\ u \notin ConnectedIds
    /\ locationHistory[u] # <<>>
    /\ locationDetails[u] = locationHistory[u][Len(locationHistory[u])]

(***************************************************************************)
(* Properties of the history (specification SpecHistory)                   *)
(***************************************************************************)
\* C16: the history of a principal never holds more than 100 entries; up to 100
\* accepted updates it holds all of them, and after N > 100 it holds exactly the
\* 100 most recent ones, oldest first.
C16_HistoryIsLastHundred ==
  \A u \in DOMAIN allReports :
    LET all == allReports[u]
        h == locationHistory[u]
        N == Len(all)
    IN  /\ Len(h) <= HistoryCap
        /\ N <= HistoryCap => h = all
        /\ N > HistoryCap =>
             /\ Len(h) = HistoryCap
             /\ \A k \in 1..HistoryCap : h[k] = all[N - HistoryCap + k]

\* a principal has made more than 100 accepted updates
C16_Witness ==
  \E u \in DOMAIN allReports :
    /\ Len(allReports[u]) > HistoryCap
    /\ Len(locationHistory[u]) = HistoryCap
    /\ locationHistory[u][1].timestamp = Len(allReports[u]) - HistoryCap + 1

(***************************************************************************)
(* Properties of the event store (specification SpecEvents)                *)
(***************************************************************************)
\* the events of store s are the last ones of all, in the same order
IsTailOf(s, all) ==
  /\ Len(s) <= Len(all)
  /\ \A k \in 1..Len(s) : s[k] = all[Len(all) - Len(s) + k]

\* C18: the event store never holds more than 1000 events; it holds all the events
\* the passes have generated up to 1000, and the 1000 most recent ones beyond, in the
\* order of generation; an event that stays in the store stays as it was stored.
C18_EventStoreIsLastThousand ==
  [][/\ Len(geofenceEvents') <= EventCap
     /\ Len(geofenceEvents') = Min(Len(allEvents'), EventCap)
     /\ IsTailOf(geofenceEvents', allEvents')
     /\ LET dropped == Len(geofenceEvents) + (Len(allEvents') - Len(allEvents))
                         - Len(geofenceEvents')
        IN  \A k \in (dropped + 1)..Len(geofenceEvents) :
              geofenceEvents'[k - dropped] = geofenceEvents[k]]_vars

\* more than 1000 events have been generated and the oldest has been dropped
C18_Witness ==
  /\ Len(allEvents) = EventCap + 1
  /\ Len(geofenceEvents) = EventCap
  /\ allEvents[1].type = "entry"
  /\ geofenceEvents[1].type = "exit"
  /\ geofenceEvents[EventCap] = allEvents[EventCap + 1]

(***************************************************************************)
(* Properties of the region registry (specification SpecRegistry)          *)
(***************************************************************************)
\* a request on the registry by one of the given paths has just been answered
RegionAnswered(paths) ==
  lastRegionRequest' # lastRegionRequest /\ lastRegionRequest'.path \in paths

\* the registry, the active set, the snapshots, the owners and the event store are
\* left as they were
RegistryKept ==
  /\ geofences' = geofences
  /\ activeGeofences' = activeGeofences
  /\ previousUsersInGeofence' = previousUsersInGeofence
  /\ createdBy' = createdBy
  /\ geofenceEvents' = geofenceEvents

\* C21: updateGeofence and deleteGeofence called with an id that is not in the
\* registry answer not-found and leave the registry, the active set, every snapshot
\* and the event store unchanged.
C21_UnknownIdNotFound ==
  [][RegionAnswered({"updateGeofence", "deleteGeofence"}) =>
       LET id == lastRegionRequest'.id IN
       ~(id \in DOMAIN geofences /\ geofences[id].stored) =>
         /\ lastRegionRequest'.result = "not_found"
         /\ RegistryKept]_vars

\* deleteGeofence of an unknown id has been answered not-found while a region with a
\* snapshot and stored events exists
C21_Witness ==
  /\ lastRegionRequest.path = "deleteGeofence"
  /\ lastRegionRequest.result = "not_found"
  /\ geofenceEvents # <<>>
  /\ \E id \in DOMAIN geofences :
       /\ geofences[id].stored
       /\ id # lastRegionRequest.id
       /\ MapGetOrEmpty(previousUsersInGeofence, id) # {}

\* C22: an update, a toggle or a delete of a region through the routes by a principal
\* other than the one in the region's created_by is refused and changes nothing.
C22_NonOwnerRejected ==
  [][RegionAnswered({"put", "delete", "toggle"}) =>
       LET id == lastRegionRequest'.id
           u == lastRegionRequest'.by
       IN  (id \in DOMAIN geofences /\ geofences[id].stored /\ createdBy[id] # u) =>
             /\ lastRegionRequest'.result # "ok"
             /\ RegistryKept]_vars

\* the toggle of a stored, active region with a snapshot has been refused to a
\* principal who is not its owner
C22_Witness ==
  /\ lastRegionRequest.path = "toggle"
  /\ lastRegionRequest.result = "not_found"
  /\ lastRegionRequest.id \in DOMAIN geofences
  /\ geofences[lastRegionRequest.id].stored
  /\ geofences[lastRegionRequest.id].is_active
  /\ createdBy[lastRegionRequest.id] # lastRegionRequest.by
  /\ MapGetOrEmpty(previousUsersInGeofence, lastRegionRequest.id) # {}

(***************************************************************************)
(* Properties of the connection registry (specification SpecSessions)      *)
(***************************************************************************)
\* C25: no two sessions of the connection registry belong to the same principal.
C25_OneSessionPerPrincipal ==
  \A j, k \in 1..Len(connectedUsers) :
    connectedUsers[j].id = connectedUsers[k].id => j = k

(***************************************************************************)
(* Properties of the broadcast (specification SpecBroadcast)               *)
(***************************************************************************)
\* the sessions of principal u
SessionsOf(u) ==
  {connectedUsers[k].socket : k \in {j \in 1..Len(connectedUsers) :
                                       connectedUsers[j].id = u}}

\* C24: a message that carries the position of a technician reaches only live
\* sessions subscribed to a topic of that technician (the technician's own sessions
\* apart).
C24_PositionOnlyToSubscribers ==
  [][lastRequest' # lastRequest =>
       \A m \in delivered' :
         m.to \notin SessionsOf(m.technicianId) =>
           /\ m.to \in ConnectedSockets
           /\ \E r \in rooms : r.socket = m.to /\ r.technicianId = m.technicianId]_vars

(***************************************************************************)
(* Properties of the evaluation with failures (specification SpecFail)     *)
(***************************************************************************)
\* the active regions that follow the one being evaluated in the running pass
StillToEvaluate ==
  {id \in Range(Tail(sweep.queue)) : geofences[id].stored /\ geofences[id].is_active}

\* C27: when the evaluation of a region fails, the pass goes on: every other active
\* region of the pass is still to be evaluated or is being evaluated after the
\* failure, and a pass in which an evaluation has failed comes to its end, after
\* which the interval callback starts passes as before.
C27_FailureConfined ==
  /\ [][(failed' # failed /\ sweep.pc # "idle") =>
          /\ StillToEvaluate \subseteq Range(sweep'.queue)
          /\ sweep'.pc \in {"idle", "locs", "prev"}
          /\ sweep'.pc = "idle" => StillToEvaluate = {}]_vars
  /\ (failed # {} /\ sweep.pc # "idle") ~> (sweep.pc = "idle")

\* the evaluation of the first region failed and the pass went on to evaluate the
\* second region, recorded an entry for it and ended
C27_Witness ==
  /\ sweep.pc = "idle"
  /\ failed = {"g1"}
  /\ "g2" \in DOMAIN previousUsersInGeofence
  /\ previousUsersInGeofence["g2"] # {}
  /\ \E k \in 1..Len(geofenceEvents) :
       geofenceEvents[k].geofence_id = "g2" /\ geofenceEvents[k].type = "entry"
  /\ \A k \in 1..Len(geofenceEvents) : geofenceEvents[k].geofence_id # "g1"

(***************************************************************************)
(* Properties of the check on a position update (specification SpecInside) *)
(***************************************************************************)
\* the number of location_update events of region id for principal u in events
UpdatesFor(events, id, u) ==
  Cardinality({k \in 1..Len(events) : /\ events[k].type = "location_update"
                                      /\ events[k].geofence_id = id
                                      /\ events[k].user_id = u})

\* the stored and active regions whose circle holds position p
ActiveHolding(p) ==
  {id \in DOMAIN geofences : /\ geofences[id].stored
                             /\ geofences[id].is_active
                             /\ isPointInGeofence(p, geofences[id])}

\* C28: the check that follows an accepted position update of a principal returns
\* exactly one location_update event for every region that is active and holds the
\* new position, also when several regions hold it, none for any other region, and
\* nothing else.
C28_OneUpdatePerHoldingRegion ==
  [][(handler.pc = "stored" /\ handler'.pc = "checked") =>
       /\ \A id \in GeofenceIds :
            UpdatesFor(handler'.events, id, handler.user) =
              IF id \in ActiveHolding(handler.pos) THEN 1 ELSE 0
       /\ Len(handler'.events) = Cardinality(ActiveHolding(handler.pos))]_vars

\* the new position is inside two active regions at once: two events, one per region
C28_Witness ==
  /\ handler.pc = "checked"
  /\ Len(handler.events) = 2
  /\ ActiveHolding(handler.pos) = {"g1", "g2"}

(***************************************************************************)
(* Properties of the limited reads (specification SpecQuery)               *)
(***************************************************************************)
\* C29: a read of a principal's history or of a region's events with a limit returns
\* the min(limit, available) most recent entries in their stored order and never
\* more than limit entries, for every limit >= 0; limit 0 returns nothing.
C29_LastLimitEntries ==
  lastQuery.status = "ok" =>
    /\ lastQuery.result = LastN(lastQuery.from, Min(lastQuery.limit, Len(lastQuery.from)))
    /\ Len(lastQuery.result) <= lastQuery.limit

(***************************************************************************)
(* Properties of the rate limiter (specification SpecRate)                 *)
(***************************************************************************)
\* the request just answered found no window of its key, or one that is over
NewWindow(key) == key \notin DOMAIN limits \/ clock > limits[key].resetTime

C31_OneAlertAmongHandlersInFlight ==
  [][(/\ handler.pc = "fetch"
      /\ handler'.pc # "fetch"
      /\ parkedHandler' = parkedHandler
      /\ alertTarget(handler.userIds, handler.user) # NoSocket)
     => handler.user \notin
          MapGetOrEmpty(proximityAlerts, handler.events[handler.i].geofence_id)]_vars

(***************************************************************************)
(* Properties of the registry and its active set (specification           *)
(* SpecActive)                                                             *)
(***************************************************************************)
\* C32: after any sequence of create, createServiceRequestGeofence, update, toggle
\* and delete the active set is exactly the set of the ids of the stored regions
\* whose is_active is true.
C32_ActiveSetMatchesFlags ==
  Range(activeGeofences) =
    {id \in DOMAIN geofences : geofences[id].stored /\ geofences[id].is_active}

\* a service-request region has been switched off and is out of the active set, and
\* another region has been deleted
C32_Witness ==
  /\ \E id \in DOMAIN geofences :
       /\ geofences[id].stored
       /\ geofences[id].serviceRequestId # NoKey
       /\ ~geofences[id].is_active
       /\ id \notin Range(activeGeofences)
  /\ \E id \in DOMAIN geofences : ~geofences[id].stored

(***************************************************************************)
(* Properties of a delete during a pass (specification SpecAsync)          *)
(***************************************************************************)
\* deleteGeofence(id) has removed the region
Deleted(id) == id \in DOMAIN geofences /\ ~geofences[id].stored

Alternates(ts) == \A k \in 1..Len(ts) : ts[k] = IF k % 2 = 1 THEN "entry" ELSE "exit"

SessionsLeftOf(u) ==
  {connectedUsers'[k].socket : k \in {j \in 1..Len(connectedUsers') :
                                        connectedUsers'[j].id = u}}

\* C35: a disconnect marks a principal offline only when no live session of that
\* principal remains: when one of two sessions of an online principal disconnects,
\* the principal stays online.
C35_OfflineOnlyWithoutSessions ==
  [][\A s \in ConnectedSockets :
       LET u == UserOfSocket(s) IN
       (/\ s \notin {connectedUsers'[k].socket : k \in 1..Len(connectedUsers')}
        /\ SessionsLeftOf(u) # {}
        /\ u \in DOMAIN userStatus
        /\ userStatus[u] = "online")
       => (u \in DOMAIN userStatus' /\ userStatus'[u] = "online")]_vars

(***************************************************************************)
(* Properties of the fields an update may change (specification            *)
(* SpecRegistry)                                                           *)
(***************************************************************************)
\* C36: an update of a region that succeeds, whatever fields it carries, leaves the
\* region stored and its owner (created_by) as it was, so that the region is still
\* listed for its original owner and for nobody else.
C36_UpdateKeepsOwner ==
  [][(/\ RegionAnswered({"put", "toggle", "updateGeofence"})
      /\ lastRegionRequest'.result = "ok")
     => LET id == lastRegionRequest'.id IN
        /\ id \in DOMAIN geofences' /\ geofences'[id].stored
        /\ id \in DOMAIN createdBy => (id \in DOMAIN createdBy'
                                       /\ createdBy'[id] = createdBy[id])]_vars

(***************************************************************************)
(* Properties of the interval timer (specification SpecTimer)              *)
(***************************************************************************)
\* C37: whatever the order of the calls of startGeofenceChecking and
\* stopGeofenceChecking, at most one interval timer is armed, and once
\* stopGeofenceChecking has returned no pass starts before the next start.
C37_OneTimerAndStopStops ==
  /\ [](Cardinality(timers) <= 1)
  /\ [][(stopped /\ stopped') => ~(sweep.pc = "idle" /\ sweep'.pc # "idle")]_vars

(***************************************************************************)
(* Properties of the stored kinds of events (specification SpecToggle)     *)
(***************************************************************************)
\* C38: the event store holds the events of all three kinds: once the check of a
\* position update has returned its location_update events, each of them is in
\* the event store, as the entry and exit events of the passes are.
C38_LocationUpdatesStored ==
  handler.pc = "checked" =>
    \A k \in 1..Len(handler.events) :
      \E j \in 1..Len(geofenceEvents) : geofenceEvents[j] = handler.events[k]

(***************************************************************************)
(* Properties of positions over HTTP (specification SpecHttp)              *)
(***************************************************************************)
\* the entries of principal v in the location store are those of before the step
StoreKeptFor(v) ==
  /\ (v \in DOMAIN userLocations') = (v \in DOMAIN userLocations)
  /\ v \in DOMAIN userLocations => userLocations'[v] = userLocations[v]
  /\ (v \in DOMAIN locationDetails') = (v \in DOMAIN locationDetails)
  /\ v \in DOMAIN locationDetails => locationDetails'[v] = locationDetails[v]
  /\ ArrayOf(locationHistory', v) = ArrayOf(locationHistory, v)
  /\ (v \in DOMAIN userStatus') = (v \in DOMAIN userStatus)
  /\ v \in DOMAIN userStatus => userStatus'[v] = userStatus[v]

\* C39: a request POST /me or POST /bulk changes only the current position, the
\* history and the status of the principal that makes it: the registry, the active
\* set, the snapshots, the event store and the alert-sent markers are unchanged,
\* nothing is pushed to a session, and the entries of other principals are kept.
C39_HttpPositionOnlyStore ==
  [][(lastRequest' # lastRequest /\ lastRequest'.path \in {"post", "bulk"}) =>
       /\ geofences' = geofences
       /\ activeGeofences' = activeGeofences
       /\ previousUsersInGeofence' = previousUsersInGeofence
       /\ geofenceEvents' = geofenceEvents
       /\ proximityAlerts' = proximityAlerts
       /\ emitted' = emitted
       /\ delivered' = delivered
       /\ connectedUsers' = connectedUsers
       /\ \A v \in Users \ {lastRequest'.user} : StoreKeptFor(v)]_vars

\* a position inside an active region has been accepted over HTTP from a principal
\* that the snapshot of the region does not hold, while the other principal is in
\* the snapshot with its entry event stored
C39_Witness ==
  /\ lastRequest.path \in {"post", "bulk"}
  /\ \E k \in 1..Len(lastRequest.items) : lastRequest.items[k].result = "stored"
  /\ \E id \in DOMAIN geofences :
       /\ geofences[id].stored /\ geofences[id].is_active
       /\ lastRequest.user \in InsideNow(id)
       /\ lastRequest.user \notin MapGetOrEmpty(previousUsersInGeofence, id)
       /\ MapGetOrEmpty(previousUsersInGeofence, id) # {}
  /\ geofenceEvents # <<>>
  /\ sweep.pc = "idle"

(***************************************************************************)
(* Properties of who reads the events of a region (specification           *)
(* SpecAccess)                                                             *)
(***************************************************************************)
\* C40: on every path that reads stored events, over HTTP or over a session, with
\* or without a region id, each event returned belongs to a region owned by the
\* principal that asks.
C40_EventsOnlyToOwner ==
  [][(lastQuery' # lastQuery
      /\ lastQuery'.path \in {"events", "get_geofence_events"}) =>
       \A k \in 1..Len(lastQuery'.result) :
         LET id == lastQuery'.result[k].geofence_id IN
         id \in DOMAIN createdBy /\ createdBy[id] = lastQuery'.by]_vars

====
